---- MODULE Spec2Model ----
(***************************************************************************)
(* Verification model of the let_ar wearable IMU firmware                  *)
(* (scripts/firmware): the BLE IMU GATT service (ble_imu_service.c) and    *)
(* the SHTP packet engine of the BNO085 driver (bno085.c).                 *)
(*                                                                         *)
(* Each handler / API function of the C code is a pure operator that maps  *)
(* the object's fields (and the answers of the external collaborators) to  *)
(* the new fields, the return value and the calls it made; each action     *)
(* applies one such operator and records the call in a trace record so    *)
(* that "immediately after" properties are state predicates.               *)
(***************************************************************************)
EXTENDS Integers, Sequences, FiniteSets, TLC

VARIABLES
    svc,        \* ble_imu_service_t: the fields of the single service instance
    last,       \* the most recent call into the IMU service and what it did
    sequence,   \* bno085_t.sequence[6]: per-channel SHTP sequence counters
    shtp,       \* the most recent SHTP send and what it put on the I2C bus
    payload,    \* the payload buffer handed to the SHTP send of this run
    dev,        \* bno085_t: initialized flag, receive buffer, version fields
    sdata,      \* s_sensor_data: the driver's static sample cache
    udata,      \* the bno085_data_t of the caller (s_imu_data in main.c)
    bus,        \* what the sensor has pending on the I2C bus for the next poll
    drv,        \* the most recent bno085_poll and what it did
    boot,       \* position and history of a running bno085_init_config
    adv,        \* ble_advertising.c statics: m_initialized, m_adv_mode, m_config, ...
    advlast,    \* the most recent call into the advertising module and what it did
    stk,        \* ble_stack.c: m_conn_state and the most recent stack event
    app         \* main.c statics, the pending radio events and the loop position

vars == <<svc, last, sequence, shtp, payload, dev, sdata, udata, bus, drv, boot,
          adv, advlast, stk, app>>

(***************************************************************************)
(* Program constants                                                       *)
(***************************************************************************)
NRF_SUCCESS == 0
NRF_ERROR_NOT_FOUND == 5
NRF_ERROR_INVALID_PARAM == 7
NRF_ERROR_INVALID_STATE == 8
NRF_ERROR_RESOURCES == 19
BLE_CONN_HANDLE_INVALID == 65535
BLE_GATT_HANDLE_INVALID == 0
BLE_GATT_HVX_NOTIFICATION == 1
DEFAULT_SAMPLE_RATE_MS == 10
BLE_IMU_QUAT_SIZE == 16
BLE_IMU_ACCEL_SIZE == 12
BLE_IMU_GYRO_SIZE == 12
BLE_IMU_RATE_SIZE == 2
BLE_IMU_STATUS_SIZE == 1
SHTP_HEADER_SIZE == 4
TxBufferSize == 256
BNO085_OK == 0
BNO085_ERR_I2C == -1
BNO085_ERR_TIMEOUT == -2
BNO085_ERR_NOT_FOUND == -3
BNO085_ERR_INVALID_DATA == -4
BNO085_ERR_BUFFER_OVERFLOW == -6
BNO085_ERR_INVALID_PARAM == -7
RxBufferSize == 512
SHTP_CHANNEL_COMMAND == 0
SHTP_CHANNEL_EXECUTABLE == 1
SHTP_CHANNEL_CONTROL == 2
SHTP_CHANNEL_REPORTS == 3
SH2_ACCELEROMETER == 1
SH2_GYROSCOPE == 2
SH2_MAGNETOMETER == 3
SH2_LINEAR_ACCELERATION == 4
SH2_ROTATION_VECTOR == 5
SH2_GRAVITY == 6
SH2_GYROSCOPE_UNCALIBRATED == 7
SH2_GAME_ROTATION_VECTOR == 8
SH2_GEOMAGNETIC_ROTATION == 9
SH2_STEP_COUNTER == 17
SH2_STABILITY_CLASSIFIER == 19
SH2_CMD_PRODUCT_ID_REQ == 249
SH2_CMD_PRODUCT_ID_RESP == 248
SH2_EXEC_RESET == 1
SH2_RESET_COMPLETE == 1
SHTP_Q_ROTATION_VECTOR == 14
SHTP_Q_ACCELEROMETER == 8
SHTP_Q_GYROSCOPE == 9
SHTP_Q_MAGNETOMETER == 4
SHTP_Q_ACCURACY == 12
TWIM_OK == 0
TWIM_ERR_ANACK == -1
TWIM_ERR_DNACK == -2
TWIM_ERR_OVERRUN == -3
TWIM_ERR_TIMEOUT == -4
TWIM_ERR_INVALID_PARAM == -6

(***************************************************************************)
(* Bounds of the model                                                     *)
(***************************************************************************)
MaxConnHandle == 1      \* connection handles 0..MaxConnHandle are delivered

(***************************************************************************)
(* Small helpers                                                           *)
(***************************************************************************)
\* the two bytes a host writes for the 16-bit value v (little-endian)
LE16(v) == <<v % 256, (v \div 256) % 256>>

\* memory image of n bytes whose content is determined by a fill byte
Mem(fill, n) == [i \in 1..n |-> (fill + 7 * i) % 256]

\* the first n bytes of a memory image (what a (pointer, length) pair denotes)
Take(mem, n) == [i \in 1..n |-> mem[i]]

(***************************************************************************)
(* BLE IMU service (ble_imu_service.c)                                     *)
(***************************************************************************)

\* handles the radio stack returned from sd_ble_gatts_characteristic_add
\* (value handle, CCCD handle); the rate characteristic has no CCCD
CharHandles ==
    [quat   |-> [value_handle |-> 14, cccd_handle |-> 15],
     accel  |-> [value_handle |-> 17, cccd_handle |-> 18],
     gyro   |-> [value_handle |-> 20, cccd_handle |-> 21],
     rate   |-> [value_handle |-> 23, cccd_handle |-> BLE_GATT_HANDLE_INVALID],
     status |-> [value_handle |-> 25, cccd_handle |-> 26]]

\* ble_imu_config_t values handed to init; NoConfig is the NULL pointer
NoConfig == [null |-> TRUE]
InitRates == {0, 1000, 1001}
Configs == {NoConfig} \cup {[null |-> FALSE, default_rate_ms |-> r] : r \in InitRates}

\* what one call into the service did
Outcome(s, ret, events, hvx, vset) ==
    [svc |-> s, ret |-> ret, events |-> events, hvx |-> hvx, vset |-> vset]

\* service->evt_handler(&evt), guarded by the NULL test the code makes
Emit(s, evt) == IF s.evt_handler THEN <<evt>> ELSE <<>>

\* ble_imu_service_init on the success path (every stack call accepted)
ble_imu_service_init(config, evt_handler) ==
    [conn_handle           |-> BLE_CONN_HANDLE_INVALID,
     quat_notify_enabled   |-> FALSE,
     accel_notify_enabled  |-> FALSE,
     gyro_notify_enabled   |-> FALSE,
     status_notify_enabled |-> FALSE,
     sample_rate_ms        |-> IF config.null THEN DEFAULT_SAMPLE_RATE_MS
                                              ELSE config.default_rate_ms,
     status_flags          |-> 0,
     evt_handler           |-> evt_handler]

\* faulty variant: any non-zero first byte counts as "enabled"
CccdEnabled_nonzero(data) == data[1] # 0

\* bool enabled = (p_evt->data[0] & 0x01) != 0
CccdEnabled(data) == data[1] % 2 = 1

\* faulty variant: the two bytes read in big-endian order
RateOf_big_endian(data) == 256 * data[1] + data[2]

\* uint16_t new_rate = data[0] | (data[1] << 8)
RateOf(data) == data[1] + 256 * data[2]

ImuEvt(type, s) == [type |-> type, conn_handle |-> s.conn_handle]

\* on_write: a BLE_GATTS_EVT_WRITE with attribute handle w.handle, w.len
\* bytes written and w.data the written bytes
on_write(s, w) ==
    IF w.handle = CharHandles.quat.cccd_handle /\ w.len = 2 THEN
        LET enabled == CccdEnabled(w.data)
            s1 == [s EXCEPT !.quat_notify_enabled = enabled] IN
        Outcome(s1, "void",
                Emit(s1, ImuEvt(IF enabled THEN "BLE_IMU_EVT_QUAT_NOTIFY_EN"
                                           ELSE "BLE_IMU_EVT_QUAT_NOTIFY_DIS", s1)),
                <<>>, <<>>)
    ELSE IF w.handle = CharHandles.accel.cccd_handle /\ w.len = 2 THEN
        LET enabled == CccdEnabled(w.data)
            s1 == [s EXCEPT !.accel_notify_enabled = enabled] IN
        Outcome(s1, "void",
                Emit(s1, ImuEvt(IF enabled THEN "BLE_IMU_EVT_ACCEL_NOTIFY_EN"
                                           ELSE "BLE_IMU_EVT_ACCEL_NOTIFY_DIS", s1)),
                <<>>, <<>>)
    ELSE IF w.handle = CharHandles.gyro.cccd_handle /\ w.len = 2 THEN
        LET enabled == CccdEnabled(w.data)
            s1 == [s EXCEPT !.gyro_notify_enabled = enabled] IN
        Outcome(s1, "void",
                Emit(s1, ImuEvt(IF enabled THEN "BLE_IMU_EVT_GYRO_NOTIFY_EN"
                                           ELSE "BLE_IMU_EVT_GYRO_NOTIFY_DIS", s1)),
                <<>>, <<>>)
    ELSE IF w.handle = CharHandles.status.cccd_handle /\ w.len = 2 THEN
        LET enabled == CccdEnabled(w.data)
            s1 == [s EXCEPT !.status_notify_enabled = enabled] IN
        Outcome(s1, "void",
                Emit(s1, ImuEvt(IF enabled THEN "BLE_IMU_EVT_STATUS_NOTIFY_EN"
                                           ELSE "BLE_IMU_EVT_STATUS_NOTIFY_DIS", s1)),
                <<>>, <<>>)
    ELSE IF w.handle = CharHandles.rate.value_handle /\ w.len = 2 THEN
        LET new_rate == RateOf(w.data) IN
        IF new_rate >= 1 /\ new_rate <= 1000 THEN
            LET s1 == [s EXCEPT !.sample_rate_ms = new_rate] IN
            Outcome(s1, "void",
                    Emit(s1, [type |-> "BLE_IMU_EVT_RATE_WRITE",
                              conn_handle |-> s1.conn_handle,
                              rate_ms |-> new_rate]),
                    <<>>, <<>>)
        ELSE Outcome(s, "void", <<>>, <<>>, <<>>)
    ELSE Outcome(s, "void", <<>>, <<>>, <<>>)

\* faulty variant: the status flag survives a new connection
on_connected_keeps_status(s, e) ==
    LET s1 == [s EXCEPT !.conn_handle = e.conn_handle,
                        !.quat_notify_enabled = FALSE,
                        !.accel_notify_enabled = FALSE,
                        !.gyro_notify_enabled = FALSE] IN
    Outcome(s1, "void", Emit(s1, ImuEvt("BLE_IMU_EVT_CONNECTED", s1)), <<>>, <<>>)

\* case BLE_GAP_EVT_CONNECTED of ble_imu_service_on_ble_evt
on_connected(s, e) ==
    LET s1 == [s EXCEPT !.conn_handle = e.conn_handle,
                        !.quat_notify_enabled = FALSE,
                        !.accel_notify_enabled = FALSE,
                        !.gyro_notify_enabled = FALSE,
                        !.status_notify_enabled = FALSE] IN
    Outcome(s1, "void", Emit(s1, ImuEvt("BLE_IMU_EVT_CONNECTED", s1)), <<>>, <<>>)

\* faulty variant: the connection handle is not invalidated
on_disconnected_keeps_handle(s, e) ==
    LET s1 == [s EXCEPT !.quat_notify_enabled = FALSE,
                        !.accel_notify_enabled = FALSE,
                        !.gyro_notify_enabled = FALSE,
                        !.status_notify_enabled = FALSE] IN
    Outcome(s1, "void", Emit(s, ImuEvt("BLE_IMU_EVT_DISCONNECTED", s)), <<>>, <<>>)

\* faulty variant: the status flag survives the disconnection
on_disconnected_keeps_status(s, e) ==
    LET s1 == [s EXCEPT !.conn_handle = BLE_CONN_HANDLE_INVALID,
                        !.quat_notify_enabled = FALSE,
                        !.accel_notify_enabled = FALSE,
                        !.gyro_notify_enabled = FALSE] IN
    Outcome(s1, "void", Emit(s, ImuEvt("BLE_IMU_EVT_DISCONNECTED", s)), <<>>, <<>>)

\* case BLE_GAP_EVT_DISCONNECTED: the handler runs first, then the fields
\* are cleared
on_disconnected(s, e) ==
    LET s1 == [s EXCEPT !.conn_handle = BLE_CONN_HANDLE_INVALID,
                        !.quat_notify_enabled = FALSE,
                        !.accel_notify_enabled = FALSE,
                        !.gyro_notify_enabled = FALSE,
                        !.status_notify_enabled = FALSE] IN
    Outcome(s1, "void", Emit(s, ImuEvt("BLE_IMU_EVT_DISCONNECTED", s)), <<>>, <<>>)

\* case BLE_GATTS_EVT_HVN_TX_COMPLETE
on_hvn_tx_complete(s, e) ==
    Outcome(s, "void",
            Emit(s, [type |-> "BLE_IMU_EVT_TX_COMPLETE",
                     conn_handle |-> s.conn_handle,
                     tx_count |-> e.count]),
            <<>>, <<>>)

\* ble_imu_service_on_ble_evt: dispatch on the event id
ble_imu_service_on_ble_evt(s, e) ==
    CASE e.evt_id = "BLE_GAP_EVT_CONNECTED"         -> on_connected(s, e)
      [] e.evt_id = "BLE_GAP_EVT_DISCONNECTED"      -> on_disconnected(s, e)
      [] e.evt_id = "BLE_GATTS_EVT_WRITE"           -> on_write(s, e.write)
      [] e.evt_id = "BLE_GATTS_EVT_HVN_TX_COMPLETE" -> on_hvn_tx_complete(s, e)
      [] OTHER                                      -> Outcome(s, "void", <<>>, <<>>, <<>>)

\* a pointer argument: NULL, or the memory image of the struct it points to
NullPtr == [null |-> TRUE]
Ptr(mem) == [null |-> FALSE, mem |-> mem]

\* notify_send: one sd_ble_gatts_hvx call; r is what the stack returns
notify_send(conn_handle, value_handle, p_data, len, r) ==
    [hvx |-> <<[conn_handle |-> conn_handle,
                handle      |-> value_handle,
                type        |-> BLE_GATT_HVX_NOTIFICATION,
                offset      |-> 0,
                len         |-> len,
                data        |-> Take(p_data, len),
                result      |-> r]>>,
     ret |-> r]

\* faulty variant: a refused transmission switches the notifications off
ble_imu_notify_quaternion_gives_up(s, quat, r) ==
    IF quat.null THEN Outcome(s, NRF_ERROR_INVALID_PARAM, <<>>, <<>>, <<>>)
    ELSE IF s.conn_handle = BLE_CONN_HANDLE_INVALID
        THEN Outcome(s, NRF_ERROR_INVALID_STATE, <<>>, <<>>, <<>>)
    ELSE IF ~s.quat_notify_enabled THEN Outcome(s, NRF_SUCCESS, <<>>, <<>>, <<>>)
    ELSE LET n == notify_send(s.conn_handle, CharHandles.quat.value_handle,
                              quat.mem, BLE_IMU_QUAT_SIZE, r)
             s1 == IF n.ret = NRF_ERROR_RESOURCES
                   THEN [s EXCEPT !.quat_notify_enabled = FALSE] ELSE s IN
         Outcome(s1, n.ret, <<>>, n.hvx, <<>>)

ble_imu_notify_quaternion(s, quat, r) ==
    IF quat.null THEN Outcome(s, NRF_ERROR_INVALID_PARAM, <<>>, <<>>, <<>>)
    ELSE IF s.conn_handle = BLE_CONN_HANDLE_INVALID
        THEN Outcome(s, NRF_ERROR_INVALID_STATE, <<>>, <<>>, <<>>)
    ELSE IF ~s.quat_notify_enabled THEN Outcome(s, NRF_SUCCESS, <<>>, <<>>, <<>>)
    ELSE LET n == notify_send(s.conn_handle, CharHandles.quat.value_handle,
                              quat.mem, BLE_IMU_QUAT_SIZE, r) IN
         Outcome(s, n.ret, <<>>, n.hvx, <<>>)

\* faulty variant: the sample goes out on the gyroscope characteristic
ble_imu_notify_accelerometer_wrong_handle(s, accel, r) ==
    IF accel.null THEN Outcome(s, NRF_ERROR_INVALID_PARAM, <<>>, <<>>, <<>>)
    ELSE IF s.conn_handle = BLE_CONN_HANDLE_INVALID
        THEN Outcome(s, NRF_ERROR_INVALID_STATE, <<>>, <<>>, <<>>)
    ELSE IF ~s.accel_notify_enabled THEN Outcome(s, NRF_SUCCESS, <<>>, <<>>, <<>>)
    ELSE LET n == notify_send(s.conn_handle, CharHandles.gyro.value_handle,
                              accel.mem, BLE_IMU_ACCEL_SIZE, r) IN
         Outcome(s, n.ret, <<>>, n.hvx, <<>>)

ble_imu_notify_accelerometer(s, accel, r) ==
    IF accel.null THEN Outcome(s, NRF_ERROR_INVALID_PARAM, <<>>, <<>>, <<>>)
    ELSE IF s.conn_handle = BLE_CONN_HANDLE_INVALID
        THEN Outcome(s, NRF_ERROR_INVALID_STATE, <<>>, <<>>, <<>>)
    ELSE IF ~s.accel_notify_enabled THEN Outcome(s, NRF_SUCCESS, <<>>, <<>>, <<>>)
    ELSE LET n == notify_send(s.conn_handle, CharHandles.accel.value_handle,
                              accel.mem, BLE_IMU_ACCEL_SIZE, r) IN
         Outcome(s, n.ret, <<>>, n.hvx, <<>>)

\* faulty variant: disabled notifications are reported as an error
ble_imu_notify_gyroscope_disabled_is_error(s, gyro, r) ==
    IF gyro.null THEN Outcome(s, NRF_ERROR_INVALID_PARAM, <<>>, <<>>, <<>>)
    ELSE IF s.conn_handle = BLE_CONN_HANDLE_INVALID
        THEN Outcome(s, NRF_ERROR_INVALID_STATE, <<>>, <<>>, <<>>)
    ELSE IF ~s.gyro_notify_enabled
        THEN Outcome(s, NRF_ERROR_INVALID_STATE, <<>>, <<>>, <<>>)
    ELSE LET n == notify_send(s.conn_handle, CharHandles.gyro.value_handle,
                              gyro.mem, BLE_IMU_GYRO_SIZE, r) IN
         Outcome(s, n.ret, <<>>, n.hvx, <<>>)

ble_imu_notify_gyroscope(s, gyro, r) ==
    IF gyro.null THEN Outcome(s, NRF_ERROR_INVALID_PARAM, <<>>, <<>>, <<>>)
    ELSE IF s.conn_handle = BLE_CONN_HANDLE_INVALID
        THEN Outcome(s, NRF_ERROR_INVALID_STATE, <<>>, <<>>, <<>>)
    ELSE IF ~s.gyro_notify_enabled THEN Outcome(s, NRF_SUCCESS, <<>>, <<>>, <<>>)
    ELSE LET n == notify_send(s.conn_handle, CharHandles.gyro.value_handle,
                              gyro.mem, BLE_IMU_GYRO_SIZE, r) IN
         Outcome(s, n.ret, <<>>, n.hvx, <<>>)

\* faulty variant: a missing connection is reported as success
ble_imu_notify_status_unconnected_ok(s, status, r) ==
    IF s.conn_handle = BLE_CONN_HANDLE_INVALID
        THEN Outcome(s, NRF_SUCCESS, <<>>, <<>>, <<>>)
    ELSE LET s1 == [s EXCEPT !.status_flags = status] IN
         IF ~s1.status_notify_enabled THEN Outcome(s1, NRF_SUCCESS, <<>>, <<>>, <<>>)
         ELSE LET n == notify_send(s1.conn_handle, CharHandles.status.value_handle,
                                   <<status>>, BLE_IMU_STATUS_SIZE, r) IN
              Outcome(s1, n.ret, <<>>, n.hvx, <<>>)

\* status is passed by value; &status is the one byte holding it
ble_imu_notify_status(s, status, r) ==
    IF s.conn_handle = BLE_CONN_HANDLE_INVALID
        THEN Outcome(s, NRF_ERROR_INVALID_STATE, <<>>, <<>>, <<>>)
    ELSE LET s1 == [s EXCEPT !.status_flags = status] IN
         IF ~s1.status_notify_enabled THEN Outcome(s1, NRF_SUCCESS, <<>>, <<>>, <<>>)
         ELSE LET n == notify_send(s1.conn_handle, CharHandles.status.value_handle,
                                   <<status>>, BLE_IMU_STATUS_SIZE, r) IN
              Outcome(s1, n.ret, <<>>, n.hvx, <<>>)

\* one sd_ble_gatts_value_set call; vr is what the stack returns
GattsValueSet(handle, len, value, vr) ==
    [conn_handle |-> BLE_CONN_HANDLE_INVALID, handle |-> handle, len |-> len,
     offset |-> 0, value |-> value, result |-> vr]

ble_imu_update_status(s, status, vr, r) ==
    LET s1 == [s EXCEPT !.status_flags = status]
        vs == <<GattsValueSet(CharHandles.status.value_handle,
                              BLE_IMU_STATUS_SIZE, <<status>>, vr)>> IN
    IF vr # NRF_SUCCESS THEN Outcome(s1, vr, <<>>, <<>>, vs)
    ELSE IF s1.conn_handle # BLE_CONN_HANDLE_INVALID /\ s1.status_notify_enabled
        THEN LET o == ble_imu_notify_status(s1, status, r) IN
             Outcome(o.svc, o.ret, <<>>, o.hvx, vs)
    ELSE Outcome(s1, NRF_SUCCESS, <<>>, <<>>, vs)

ble_imu_set_sample_rate(s, rate_ms, vr) ==
    IF rate_ms < 1 \/ rate_ms > 1000
        THEN Outcome(s, NRF_ERROR_INVALID_PARAM, <<>>, <<>>, <<>>)
    ELSE LET s1 == [s EXCEPT !.sample_rate_ms = rate_ms] IN
         Outcome(s1, vr, <<>>, <<>>,
                 <<GattsValueSet(CharHandles.rate.value_handle,
                                 BLE_IMU_RATE_SIZE, LE16(rate_ms), vr)>>)

(***************************************************************************)
(* SHTP packet codec of the BNO085 driver (bno085.c)                       *)
(***************************************************************************)
Channels == 0..5

\* byte i (1-based) of the caller's payload buffer: the bytes themselves
\* when the caller built them, a pattern otherwise
ByteAt(data, i) ==
    IF "bytes" \in DOMAIN data THEN data.bytes[i]
    ELSE (data.fill + 7 * i) % 256

\* twim_write(&g_twim, addr, data, len, true): rejects an empty transfer;
\* w is the bus error found (TWIM_OK when none), and without an error the
\* number of bytes transferred is returned
twim_write(bytes, len, w) ==
    [bytes |-> bytes, len |-> len, stop |-> TRUE,
     result |-> IF len = 0 THEN TWIM_ERR_INVALID_PARAM
                ELSE IF w = TWIM_OK THEN len ELSE w]

\* packet_len = header[0] | ((header[1] & 0x7F) << 8)
ParseLength(header) == header[1] + (header[2] % 128) * 256

\* channel = rx_buffer[2]
ParseChannel(header) == header[3]

\* faulty variant: the counter is incremented before it is copied into the
\* header (++dev->sequence[channel])
bno085_send_packet_preincrement(seq, channel, data, len, w, ub) ==
    LET packet_len == (len + SHTP_HEADER_SIZE) % 65536 IN
    IF packet_len > TxBufferSize THEN
        [sequence |-> seq, ret |-> BNO085_ERR_BUFFER_OVERFLOW,
         i2c |-> <<>>, copied |-> 0, overrun |-> FALSE, fault |-> FALSE]
    ELSE
        LET seq1 == [seq EXCEPT ![channel] = (@ + 1) % 256]
            header == <<packet_len % 256, (packet_len \div 256) % 128,
                        channel, seq1[channel]>>
            overrun == SHTP_HEADER_SIZE + len > TxBufferSize
            tx_buffer == IF overrun THEN header
                         ELSE header \o [i \in 1..len |-> ByteAt(data, i)]
            wr == twim_write(Take(tx_buffer, IF overrun THEN packet_len
                                                        ELSE Len(tx_buffer)),
                             packet_len, w) IN
        IF overrun /\ ub = "fault" THEN
            [sequence |-> seq1, ret |-> "no return", i2c |-> <<>>,
             copied |-> len, overrun |-> TRUE, fault |-> TRUE]
        ELSE
            [sequence |-> seq1,
             ret |-> IF wr.result < 0 THEN BNO085_ERR_I2C ELSE BNO085_OK,
             i2c |-> <<wr>>, copied |-> len, overrun |-> overrun, fault |-> FALSE]

\* bno085_send_packet(dev, channel, data, len); seq is dev->sequence, w the
\* outcome of the bus transaction.  packet_len is a uint16_t, so len + 4
\* wraps for len >= 65532 and passes the size test; the memcpy of len bytes
\* then runs past the 256-byte tx_buffer on the stack (overrun).  What the
\* build does after that is not defined: ub chooses between the program
\* carrying on with the statements that follow and a fault with no return.
\* copied is the number of payload bytes the memcpy was asked to copy.
bno085_send_packet(seq, channel, data, len, w, ub) ==
    LET packet_len == (len + SHTP_HEADER_SIZE) % 65536 IN
    IF packet_len > TxBufferSize THEN
        [sequence |-> seq, ret |-> BNO085_ERR_BUFFER_OVERFLOW,
         i2c |-> <<>>, copied |-> 0, overrun |-> FALSE, fault |-> FALSE]
    ELSE
        LET header == <<packet_len % 256, (packet_len \div 256) % 128,
                        channel, seq[channel]>>
            seq1 == [seq EXCEPT ![channel] = (@ + 1) % 256]
            overrun == SHTP_HEADER_SIZE + len > TxBufferSize
            tx_buffer == IF overrun THEN header
                         ELSE header \o [i \in 1..len |-> ByteAt(data, i)]
            wr == twim_write(Take(tx_buffer, IF overrun THEN packet_len
                                                        ELSE Len(tx_buffer)),
                             packet_len, w) IN
        IF overrun /\ ub = "fault" THEN
            [sequence |-> seq1, ret |-> "no return", i2c |-> <<>>,
             copied |-> len, overrun |-> TRUE, fault |-> TRUE]
        ELSE
            [sequence |-> seq1,
             ret |-> IF wr.result < 0 THEN BNO085_ERR_I2C ELSE BNO085_OK,
             i2c |-> <<wr>>, copied |-> len, overrun |-> overrun, fault |-> FALSE]

(***************************************************************************)
(* Driver handle and sample structures (bno085.h)                          *)
(***************************************************************************)
\* bno085_quaternion_t and bno085_vector_t, all zero
ZeroQuaternion == [i |-> 0, j |-> 0, k |-> 0, real |-> 0, accuracy_rad |-> 0, status |-> 0]
ZeroVector == [x |-> 0, y |-> 0, z |-> 0, accuracy |-> 0]

\* bno085_data_t as a zero-initialised static holds it
ZeroData ==
    [rotation_vector |-> ZeroQuaternion, game_rotation |-> ZeroQuaternion,
     accelerometer |-> ZeroVector, gyroscope |-> ZeroVector,
     magnetometer |-> ZeroVector, linear_accel |-> ZeroVector,
     gravity |-> ZeroVector, step_count |-> 0, stability |-> 0,
     timestamp_us |-> 0, report_id |-> 0]

\* bno085_t after the memset at the start of bno085_init_config;
\* enabled_reports, a uint32_t, is kept as the set of its bits that are 1
DevZero ==
    [initialized |-> FALSE, rx_buffer |-> <<>>, rx_len |-> 0,
     sw_version_major |-> 0, sw_version_minor |-> 0, sw_version_patch |-> 0,
     sw_part_number |-> 0, sw_build_number |-> 0, enabled_reports |-> {}]

(***************************************************************************)
(* SHTP receive path and report decoder of the BNO085 driver (bno085.c)    *)
(***************************************************************************)

\* dev->rx_buffer is kept as the bytes up to the highest index written since
\* the memset of bno085_init_config; every byte behind them is still 0
RxAt(buf, i) == IF i <= Len(buf) THEN buf[i] ELSE 0

\* bytes stored at (0-based) offset off of the buffer
RxStore(buf, off, bytes) ==
    LET n == IF off + Len(bytes) > Len(buf) /\ Len(bytes) > 0
             THEN off + Len(bytes) ELSE Len(buf) IN
    [i \in 1..n |-> IF i > off /\ i <= off + Len(bytes) THEN bytes[i - off]
                    ELSE RxAt(buf, i)]

\* twim_read(&g_twim, addr, data, len): src are the bytes the sensor puts on
\* the bus, fault the bus error found (TWIM_OK when none), got the number of
\* bytes EasyDMA had stored when the error stopped the transfer.  stored is
\* what reached the destination buffer.
twim_read(src, len, fault, got) ==
    IF len = 0 THEN [len |-> len, result |-> TWIM_ERR_INVALID_PARAM, stored |-> <<>>]
    ELSE IF fault = TWIM_OK THEN [len |-> len, result |-> len, stored |-> Take(src, len)]
    ELSE [len |-> len, result |-> fault,
          stored |-> Take(src, IF got < len THEN got ELSE len)]

\* a receive that stores the header in dev->rx_buffer before it looks at
\* the length
bno085_receive_packet_stores_header(d, in) ==
    LET r1 == twim_read(Take(in.bytes, SHTP_HEADER_SIZE), SHTP_HEADER_SIZE,
                        in.hfault, 0)
        header == r1.stored
        packet_len == ParseLength(header)
        d1 == [d EXCEPT !.rx_buffer = RxStore(@, 0, header)]
        payload_len == packet_len - SHTP_HEADER_SIZE
        r2 == twim_read([i \in 1..payload_len |-> in.bytes[SHTP_HEADER_SIZE + i]],
                        payload_len, in.pfault, in.got)
        d2 == [d1 EXCEPT !.rx_buffer = RxStore(@, SHTP_HEADER_SIZE, r2.stored)] IN
    IF r1.result < 0 THEN [dev |-> d, ret |-> BNO085_ERR_I2C, reads |-> <<r1>>]
    ELSE IF packet_len = 0 \/ packet_len = 32767
        THEN [dev |-> d1, ret |-> 0, reads |-> <<r1>>]
    ELSE IF packet_len < SHTP_HEADER_SIZE
        THEN [dev |-> d1, ret |-> BNO085_ERR_INVALID_DATA, reads |-> <<r1>>]
    ELSE IF packet_len > RxBufferSize
        THEN [dev |-> d1, ret |-> BNO085_ERR_BUFFER_OVERFLOW, reads |-> <<r1>>]
    ELSE IF payload_len > 0 THEN
        IF r2.result < 0
        THEN [dev |-> d2, ret |-> BNO085_ERR_I2C, reads |-> <<r1, r2>>]
        ELSE [dev |-> [d2 EXCEPT !.rx_len = packet_len], ret |-> packet_len,
              reads |-> <<r1, r2>>]
    ELSE [dev |-> [d1 EXCEPT !.rx_len = packet_len], ret |-> packet_len,
          reads |-> <<r1>>]

\* bno085_receive_packet(dev, timeout_ms); in is what the bus does: in.bytes
\* the packet the sensor presents, in.hfault / in.pfault the outcome of the
\* header read and of the payload read, in.got the bytes a failed payload
\* read had stored.  timeout_ms is not used by the code.
bno085_receive_packet(d, in) ==
    LET r1 == twim_read(Take(in.bytes, SHTP_HEADER_SIZE), SHTP_HEADER_SIZE,
                        in.hfault, 0)
        header == r1.stored
        packet_len == ParseLength(header)
        d1 == [d EXCEPT !.rx_buffer = RxStore(@, 0, header)]
        payload_len == packet_len - SHTP_HEADER_SIZE
        r2 == twim_read([i \in 1..payload_len |-> in.bytes[SHTP_HEADER_SIZE + i]],
                        payload_len, in.pfault, in.got)
        d2 == [d1 EXCEPT !.rx_buffer = RxStore(@, SHTP_HEADER_SIZE, r2.stored)] IN
    IF r1.result < 0 THEN [dev |-> d, ret |-> BNO085_ERR_I2C, reads |-> <<r1>>]
    ELSE IF packet_len = 0 \/ packet_len = 32767
        THEN [dev |-> d, ret |-> 0, reads |-> <<r1>>]
    ELSE IF packet_len < SHTP_HEADER_SIZE
        THEN [dev |-> d, ret |-> BNO085_ERR_INVALID_DATA, reads |-> <<r1>>]
    ELSE IF packet_len > RxBufferSize
        THEN [dev |-> d, ret |-> BNO085_ERR_BUFFER_OVERFLOW, reads |-> <<r1>>]
    ELSE IF payload_len > 0 THEN
        IF r2.result < 0
        THEN [dev |-> d2, ret |-> BNO085_ERR_I2C, reads |-> <<r1, r2>>]
        ELSE [dev |-> [d2 EXCEPT !.rx_len = packet_len], ret |-> packet_len,
              reads |-> <<r1, r2>>]
    ELSE [dev |-> [d1 EXCEPT !.rx_len = packet_len], ret |-> packet_len,
          reads |-> <<r1>>]

\* a field taken as unsigned: lo | (hi << 8) without the int16_t cast
Int16_unsigned(lo, hi) == lo + 256 * hi

\* (int16_t)(lo | (hi << 8))
Int16(lo, hi) ==
    LET u == lo + 256 * hi IN IF u >= 32768 THEN u - 65536 ELSE u

\* SHTP_Q_TO_FLOAT(val, q) = (float)val / (float)(1 << q).  Every value the
\* decoder produces is a multiple of 2^-14 with fewer than 24 significant
\* bits, so a float is held exactly as its number of 2^-14 units.
SHTP_Q_TO_FLOAT(val, q) == val * 2^(14 - q)

\* a decoder that accepts a quaternion report one byte short
ReportMinLen_quaternion_short(report_id) ==
    IF report_id \in {SH2_ROTATION_VECTOR, SH2_GAME_ROTATION_VECTOR,
                      SH2_GEOMAGNETIC_ROTATION} THEN 13
    ELSE IF report_id \in {SH2_ACCELEROMETER, SH2_LINEAR_ACCELERATION, SH2_GRAVITY,
                           SH2_GYROSCOPE, SH2_MAGNETOMETER} THEN 10
    ELSE IF report_id = SH2_STEP_COUNTER THEN 9
    ELSE IF report_id = SH2_STABILITY_CLASSIFIER THEN 6
    ELSE 5

\* the payload_len tests of bno085_parse_sensor_report: the length below
\* which the case of report_id returns BNO085_ERR_INVALID_DATA
ReportMinLen(report_id) ==
    IF report_id \in {SH2_ROTATION_VECTOR, SH2_GAME_ROTATION_VECTOR,
                      SH2_GEOMAGNETIC_ROTATION} THEN 14
    ELSE IF report_id \in {SH2_ACCELEROMETER, SH2_LINEAR_ACCELERATION, SH2_GRAVITY,
                           SH2_GYROSCOPE, SH2_MAGNETOMETER} THEN 10
    ELSE IF report_id = SH2_STEP_COUNTER THEN 9
    ELSE IF report_id = SH2_STABILITY_CLASSIFIER THEN 6
    ELSE 5

\* bno085_parse_sensor_report(dev, data): decodes dev->rx_buffer into *data;
\* pay(i) is payload[i].  The step count is given for payload[8] < 128, where
\* the int shift payload[8] << 24 is defined.
bno085_parse_sensor_report(d, data) ==
    LET channel == RxAt(d.rx_buffer, 3)
        pay(i) == RxAt(d.rx_buffer, SHTP_HEADER_SIZE + i + 1)
        payload_len == (d.rx_len - SHTP_HEADER_SIZE) % 65536
        report_id == pay(0)
        w(i) == Int16(pay(i), pay(i + 1))
        status == pay(2) % 4
        quat == [i |-> SHTP_Q_TO_FLOAT(w(5), SHTP_Q_ROTATION_VECTOR),
                 j |-> SHTP_Q_TO_FLOAT(w(7), SHTP_Q_ROTATION_VECTOR),
                 k |-> SHTP_Q_TO_FLOAT(w(9), SHTP_Q_ROTATION_VECTOR),
                 real |-> SHTP_Q_TO_FLOAT(w(11), SHTP_Q_ROTATION_VECTOR),
                 accuracy_rad |->
                     IF report_id = SH2_ROTATION_VECTOR /\ payload_len >= 16
                     THEN SHTP_Q_TO_FLOAT(w(13), SHTP_Q_ACCURACY) ELSE 0,
                 status |-> status]
        vec(q) == [x |-> SHTP_Q_TO_FLOAT(w(5), q),
                   y |-> SHTP_Q_TO_FLOAT(w(7), q),
                   z |-> SHTP_Q_TO_FLOAT(w(9), q),
                   accuracy |-> status]
        done(dat) == [data |-> [dat EXCEPT !.report_id = report_id],
                      ret |-> report_id]
        bad == [data |-> data, ret |-> BNO085_ERR_INVALID_DATA] IN
    IF channel # SHTP_CHANNEL_REPORTS THEN [data |-> data, ret |-> 0]
    ELSE IF payload_len < 5 THEN bad
    ELSE IF payload_len < ReportMinLen(report_id) THEN bad
    ELSE IF report_id = SH2_GAME_ROTATION_VECTOR
        THEN done([data EXCEPT !.game_rotation = quat])
    ELSE IF report_id \in {SH2_ROTATION_VECTOR, SH2_GEOMAGNETIC_ROTATION}
        THEN done([data EXCEPT !.rotation_vector = quat])
    ELSE IF report_id = SH2_ACCELEROMETER
        THEN done([data EXCEPT !.accelerometer = vec(SHTP_Q_ACCELEROMETER)])
    ELSE IF report_id = SH2_LINEAR_ACCELERATION
        THEN done([data EXCEPT !.linear_accel = vec(SHTP_Q_ACCELEROMETER)])
    ELSE IF report_id = SH2_GRAVITY
        THEN done([data EXCEPT !.gravity = vec(SHTP_Q_ACCELEROMETER)])
    ELSE IF report_id = SH2_GYROSCOPE
        THEN done([data EXCEPT !.gyroscope = vec(SHTP_Q_GYROSCOPE)])
    ELSE IF report_id = SH2_MAGNETOMETER
        THEN done([data EXCEPT !.magnetometer = vec(SHTP_Q_MAGNETOMETER)])
    ELSE IF report_id = SH2_STEP_COUNTER
        THEN done([data EXCEPT !.step_count =
                        pay(5) + 256 * pay(6) + 65536 * pay(7)
                        + 16777216 * pay(8)])
    ELSE IF report_id = SH2_STABILITY_CLASSIFIER
        THEN done([data EXCEPT !.stability = pay(5)])
    ELSE [data |-> data, ret |-> 0]

\* a poll that notes the id of every packet it received as the last report
bno085_poll_notes_every_id(d, data, in) ==
    IF ~d.initialized
    THEN [dev |-> d, data |-> data, ret |-> BNO085_ERR_INVALID_PARAM,
          rx_ret |-> 0, reads |-> <<>>, decoded |-> FALSE]
    ELSE LET r == bno085_receive_packet(d, in) IN
         IF r.ret <= 0
         THEN [dev |-> r.dev, data |-> data, ret |-> r.ret,
               rx_ret |-> r.ret, reads |-> r.reads, decoded |-> FALSE]
         ELSE LET q == bno085_parse_sensor_report(r.dev, data) IN
              [dev |-> r.dev,
               data |-> [q.data EXCEPT !.report_id =
                            RxAt(r.dev.rx_buffer, SHTP_HEADER_SIZE + 1)],
               ret |-> q.ret,
               rx_ret |-> r.ret, reads |-> r.reads, decoded |-> TRUE]

\* bno085_poll(dev, data) with data the structure the decoder writes (the
\* caller's, or s_sensor_data when the caller passes NULL); rx_ret is what
\* bno085_receive_packet returned to it
bno085_poll(d, data, in) ==
    IF ~d.initialized
    THEN [dev |-> d, data |-> data, ret |-> BNO085_ERR_INVALID_PARAM,
          rx_ret |-> 0, reads |-> <<>>, decoded |-> FALSE]
    ELSE LET r == bno085_receive_packet(d, in) IN
         IF r.ret <= 0
         THEN [dev |-> r.dev, data |-> data, ret |-> r.ret,
               rx_ret |-> r.ret, reads |-> r.reads, decoded |-> FALSE]
         ELSE LET q == bno085_parse_sensor_report(r.dev, data) IN
              [dev |-> r.dev, data |-> q.data, ret |-> q.ret,
               rx_ret |-> r.ret, reads |-> r.reads, decoded |-> TRUE]

(***************************************************************************)
(* Initialisation handshake of the BNO085 driver (bno085.c)                *)
(***************************************************************************)
WaitTimeoutMs == 500
WaitStepMs == 10
ProductIdAttempts == 10

\* the buffers bno085_reset and bno085_get_product_id hand to
\* bno085_send_packet, in the form ByteAt reads them: {SH2_EXEC_RESET} and
\* {SH2_CMD_PRODUCT_ID_REQ, 0}
ResetCmd == [fill |-> 250]
ProductIdRequest == [fill |-> 242]

\* one pass of the loop of bno085_wait_for_advertisement: a receive, and
\* the test of its result
WaitIteration(d, advertisement, in) ==
    LET r == bno085_receive_packet(d, in)
        channel == RxAt(r.dev.rx_buffer, 3)
        report_id == RxAt(r.dev.rx_buffer, 5) IN
    [dev |-> r.dev, result |-> r.ret, reads |-> r.reads,
     matched |-> /\ r.ret > SHTP_HEADER_SIZE
                 /\ channel = SHTP_CHANNEL_COMMAND
                 /\ report_id = advertisement]

\* one pass of the loop of bno085_get_product_id; data[n] is
\* dev->rx_buffer[4 + n], whatever the length of the packet received
ProductIdIteration(d, in) ==
    LET r == bno085_receive_packet(d, in)
        channel == RxAt(r.dev.rx_buffer, 3)
        data(n) == RxAt(r.dev.rx_buffer, SHTP_HEADER_SIZE + n + 1) IN
    [dev |-> r.dev, result |-> r.ret, reads |-> r.reads,
     matched |-> /\ r.ret > SHTP_HEADER_SIZE
                 /\ channel = SHTP_CHANNEL_CONTROL
                 /\ data(0) = SH2_CMD_PRODUCT_ID_RESP,
     product_id |->
        [reset_cause |-> data(1),
         sw_version_major |-> data(2),
         sw_version_minor |-> data(3),
         sw_part_number |-> data(4) + 256 * data(5) + 65536 * data(6)
                            + 16777216 * data(7),
         sw_build_number |-> data(8) + 256 * data(9) + 65536 * data(10)
                             + 16777216 * data(11),
         sw_version_patch |-> data(12) + 256 * data(13)]]

\* an init that resets again whenever a wait lapses
InitAfterWait_resets_again(pc, result) ==
    IF result = BNO085_OK THEN "product_id" ELSE "reset"

\* where bno085_init_config goes when a wait for the advertisement returns
\* result: on to the product-ID request, to the reset after the first wait,
\* out after the second
InitAfterWait(pc, result) ==
    IF result = BNO085_OK THEN "product_id"
    ELSE IF pc = "wait1" THEN "reset"
    ELSE "done"

\* the tail of bno085_init_config after a successful bno085_get_product_id
StoreVersion(d, product_id) ==
    [d EXCEPT !.sw_version_major = product_id.sw_version_major,
              !.sw_version_minor = product_id.sw_version_minor,
              !.sw_version_patch = product_id.sw_version_patch,
              !.sw_part_number = product_id.sw_part_number,
              !.sw_build_number = product_id.sw_build_number,
              !.initialized = TRUE]

(***************************************************************************)
(* Inputs                                                                  *)
(***************************************************************************)
ConnHandles == 0..MaxConnHandle

\* attribute handles a write event can carry: the service's own value and
\* CCCD handles, and one attribute of another service
WriteHandles ==
    {CharHandles[c].value_handle : c \in {"quat", "rate"}}
    \cup {CharHandles[c].cccd_handle : c \in {"quat", "accel", "gyro", "status"}}
    \cup {30}

\* 16-bit values a host writes (as two little-endian bytes), and writes of
\* one and of three bytes
WriteValues == {0, 1, 1000, 1001}
WriteDatas == {LE16(v) : v \in WriteValues} \cup {<<1>>, <<1, 0, 0>>}

QuatSamples == {NullPtr, Ptr(Mem(3, BLE_IMU_QUAT_SIZE))}
VectorSamples == {NullPtr, Ptr(Mem(90, BLE_IMU_ACCEL_SIZE))}
StatusInputs == {5}
RateInputs == {0, 1, 1000, 1001}
HvxResults == {NRF_SUCCESS, NRF_ERROR_RESOURCES, NRF_ERROR_INVALID_STATE}
ValueSetResults == {NRF_SUCCESS, NRF_ERROR_NOT_FOUND}
HousekeepingEvts == {"BLE_GATTS_EVT_SYS_ATTR_MISSING",
                     "BLE_GATTS_EVT_EXCHANGE_MTU_REQUEST"}

NotifyOps == {"ble_imu_notify_quaternion", "ble_imu_notify_accelerometer",
              "ble_imu_notify_gyroscope", "ble_imu_notify_status"}

\* payload lengths handed to the SHTP send: every length that fits, the
\* first that do not, and the top of the 16-bit range
SendLens == (0..(TxBufferSize - SHTP_HEADER_SIZE)) \cup {253, 300, 65531, 65532, 65535}
SendFills == {165}
TwimWriteResults == {TWIM_OK, TWIM_ERR_ANACK, TWIM_ERR_TIMEOUT}
\* what the build does after a write past the end of a stack array
UbOutcomes == {"continues", "fault"}
\* an SHTP packet as the sensor sends it: header (length with the
\* continuation flag in bit 15, channel, sequence number), then the body
Packet(channel, seqno, cont, body) ==
    LET n == Len(body) + SHTP_HEADER_SIZE IN
    <<n % 256, ((n \div 256) % 128) + (IF cont THEN 128 ELSE 0), channel, seqno>> \o body

\* a bare header announcing a total length of n bytes
HeaderOnly(n, cont, channel) ==
    <<n % 256, ((n \div 256) % 128) + (IF cont THEN 128 ELSE 0), channel, 0>>

\* body of an input report of n bytes: report id, sequence number, status,
\* two delay bytes, then the 16-bit words of pat in little-endian order
ReportBody(id, n, pat) ==
    [b \in 1..n |->
        LET i == b - 1 IN
        IF i = 0 THEN id
        ELSE IF i = 2 THEN pat.status
        ELSE IF i < 5 THEN 0
        ELSE LET word == pat.words[(i - 5) \div 2 + 1] IN
             IF (i - 5) % 2 = 0 THEN word % 256 ELSE word \div 256]

\* raw sample words: the half-scale quaternion of the design note, and the
\* extremes of the signed 16-bit range
ReportPatterns ==
    {[status |-> 7,   words |-> <<8192, 0, 0, 8192, 4096, 0>>],
     [status |-> 254, words |-> <<65535, 32767, 32768, 1, 61440, 0>>]}

ReportIds == {SH2_ACCELEROMETER, SH2_GYROSCOPE, SH2_MAGNETOMETER,
              SH2_LINEAR_ACCELERATION, SH2_ROTATION_VECTOR, SH2_GRAVITY,
              SH2_GAME_ROTATION_VECTOR, SH2_GEOMAGNETIC_ROTATION,
              SH2_STEP_COUNTER, SH2_STABILITY_CLASSIFIER,
              SH2_GYROSCOPE_UNCALIBRATED}
ReportLens == {0, 1, 4, 5, 6, 8, 9, 10, 13, 14, 15, 16}

\* the product-ID response of the design note: version 1.2, part number
\* 0x10, build number 0x20
ProductIdBody == <<SH2_CMD_PRODUCT_ID_RESP, 0, 1, 2, 16, 0, 0, 0, 32, 0, 0, 0, 0, 0, 0, 0>>

\* packets the sensor may present to a poll
PollPackets ==
    {Packet(SHTP_CHANNEL_REPORTS, 9, FALSE, ReportBody(id, n, pat)) :
        id \in ReportIds, n \in ReportLens, pat \in ReportPatterns}
    \cup {Packet(ch, 9, FALSE, ReportBody(id, n, pat)) :
            ch \in {SHTP_CHANNEL_CONTROL, 4}, id \in {SH2_ROTATION_VECTOR},
            n \in {4, 14}, pat \in ReportPatterns}
    \cup {Packet(SHTP_CHANNEL_REPORTS, 9, TRUE,
                 ReportBody(SH2_ROTATION_VECTOR, 16, pat)) : pat \in ReportPatterns}
    \cup {HeaderOnly(n, cont, SHTP_CHANNEL_REPORTS) :
            n \in {0, 1, 2, 3, 32767, RxBufferSize + 1}, cont \in BOOLEAN}

\* causes of failure the I2C transport reports (twim_check_error and the
\* wait for the STOPPED event)
I2cCauses == {TWIM_ERR_ANACK, TWIM_ERR_DNACK, TWIM_ERR_OVERRUN, TWIM_ERR_TIMEOUT}

\* outcome of the header read, of the payload read, and the bytes a failed
\* payload read had stored
BusFaults ==
    {[hfault |-> TWIM_OK, pfault |-> TWIM_OK, got |-> 0]}
    \cup {[hfault |-> c, pfault |-> TWIM_OK, got |-> 0] : c \in I2cCauses}
    \cup {[hfault |-> TWIM_OK, pfault |-> c, got |-> g] : c \in I2cCauses, g \in {0, 2}}

BusInput(bytes, f) ==
    [bytes |-> bytes, hfault |-> f.hfault, pfault |-> f.pfault, got |-> f.got]

PollInputs == {BusInput(bytes, f) : bytes \in PollPackets, f \in BusFaults}

\* what the bus does on a poll that follows another: one of the failures,
\* or nothing pending
FollowUps ==
    {BusInput(HeaderOnly(0, FALSE, 0), f) :
        f \in {g \in BusFaults : g.pfault = TWIM_OK}}
    \cup {BusInput(Packet(SHTP_CHANNEL_REPORTS, 10, FALSE,
                          ReportBody(SH2_GYROSCOPE, 10, pat)), f) :
            pat \in {q \in ReportPatterns : q.status = 7},
            f \in {g \in BusFaults : g.hfault = TWIM_OK /\ g.got = 0}}

\* the reset-complete advertisement, and the product-ID response cut off
\* behind its report id
ResetCompleteBody == <<SH2_RESET_COMPLETE, 7, 7, 7>>
ShortProductIdBody == <<SH2_CMD_PRODUCT_ID_RESP>>

\* packets the sensor may present while the driver initialises
HandshakePackets ==
    {HeaderOnly(0, FALSE, 0),
     Packet(SHTP_CHANNEL_COMMAND, 0, FALSE, ResetCompleteBody),
     Packet(SHTP_CHANNEL_COMMAND, 0, FALSE, <<0, 9>>),
     Packet(SHTP_CHANNEL_EXECUTABLE, 0, FALSE, ResetCompleteBody),
     Packet(SHTP_CHANNEL_CONTROL, 0, FALSE, ProductIdBody),
     Packet(SHTP_CHANNEL_CONTROL, 0, FALSE, ShortProductIdBody)}

\* every packet arriving whole, a failed header read, and a failed payload
\* read of the advertisement and of the response
HandshakeInputs ==
    {BusInput(bytes, [hfault |-> TWIM_OK, pfault |-> TWIM_OK, got |-> 0]) :
        bytes \in HandshakePackets}
    \cup {BusInput(HeaderOnly(0, FALSE, 0),
                   [hfault |-> TWIM_ERR_ANACK, pfault |-> TWIM_OK, got |-> 0])}
    \cup {BusInput(Packet(SHTP_CHANNEL_COMMAND, 0, FALSE, ResetCompleteBody),
                   [hfault |-> TWIM_OK, pfault |-> TWIM_ERR_TIMEOUT, got |-> 0]),
          BusInput(Packet(SHTP_CHANNEL_CONTROL, 0, FALSE, ProductIdBody),
                   [hfault |-> TWIM_OK, pfault |-> TWIM_ERR_DNACK, got |-> 2])}

\* counter values a channel has after some number of earlier sends
SeqStarts == {0, 255}

(***************************************************************************)
(* Advertising module (ble_advertising.c)                                  *)
(***************************************************************************)
NRF_ERROR_NO_MEM == 4
NRF_ERROR_INVALID_LENGTH == 9
NRF_ERROR_DATA_SIZE == 12
NRF_ERROR_NULL == 14
BLE_GAP_ADV_SET_DATA_SIZE_MAX == 31
BLE_STACK_DEVICE_NAME_MAX_LEN == 32
BLE_ADV_MAX_UUIDS == 4
BLE_GAP_ADV_SET_HANDLE_NOT_SET == 255
BLE_GAP_AD_TYPE_FLAGS == 1
BLE_GAP_AD_TYPE_16BIT_SERVICE_UUID_COMPLETE == 3
BLE_GAP_AD_TYPE_SHORT_LOCAL_NAME == 8
BLE_GAP_AD_TYPE_COMPLETE_LOCAL_NAME == 9
BLE_GAP_AD_TYPE_TX_POWER_LEVEL == 10
BLE_GAP_AD_TYPE_APPEARANCE == 25
BLE_GAP_AD_TYPE_MANUFACTURER_SPECIFIC_DATA == 255
BLE_GAP_ADV_FLAGS_LE_ONLY_GENERAL_DISC_MODE == 6
BLE_UUID_TYPE_BLE == 1
BLE_UUID_TYPE_VENDOR_BEGIN == 2
BLE_APPEARANCE_GENERIC_TAG == 512
\* ble_adv_mode_t
BLE_ADV_MODE_IDLE == 0
BLE_ADV_MODE_FAST == 1
BLE_ADV_MODE_SLOW == 2
\* ble_adv_evt_t
BLE_ADV_EVT_STARTED == 0
BLE_ADV_EVT_STOPPED == 1
BLE_ADV_EVT_FAST_TIMEOUT == 2
BLE_ADV_EVT_SLOW_TIMEOUT == 3
BLE_ADV_EVT_CONNECTED == 4

\* a value stored in a uint8_t
Uint8(n) == n % 256

\* m_config as the zero-initialised static holds it before ble_advertising_init;
\* uuids[0 .. uuid_count-1] is the sequence uuids
ConfigZero ==
    [fast_interval |-> 0, slow_interval |-> 0, fast_timeout |-> 0,
     slow_timeout |-> 0, include_name |-> FALSE, include_appearance |-> FALSE,
     include_tx_power |-> FALSE, uuids |-> <<>>, include_name_in_sr |-> FALSE,
     p_manuf_data |-> "NULL", manuf_data_len |-> 0, company_id |-> 0,
     auto_restart |-> FALSE]

BLE_ADVERTISING_CONFIG_DEFAULT ==
    [fast_interval |-> 160, slow_interval |-> 1600, fast_timeout |-> 3000,
     slow_timeout |-> 0, include_name |-> TRUE, include_appearance |-> FALSE,
     include_tx_power |-> FALSE, uuids |-> <<>>, include_name_in_sr |-> FALSE,
     p_manuf_data |-> "NULL", manuf_data_len |-> 0, company_id |-> 65535,
     auto_restart |-> TRUE]

\* the statics of ble_advertising.c at reset; adv_data is the written part of
\* m_adv_data, adv_len is m_adv_data_struct.adv_data.len, scan_rsp_data the
\* bytes m_adv_data_struct.scan_rsp_data describes
AdvZero ==
    [initialized |-> FALSE, mode |-> BLE_ADV_MODE_IDLE,
     handle |-> BLE_GAP_ADV_SET_HANDLE_NOT_SET, config |-> ConfigZero,
     evt_handler |-> FALSE, adv_data |-> <<>>, adv_len |-> 0,
     scan_rsp_data |-> <<>>]

\* the bytes the 16-bit UUID loop writes: two per UUID of type BLE, little
\* endian, and none for a UUID of any other type
RECURSIVE UuidBytes(_)
UuidBytes(uuids) ==
    IF uuids = <<>> THEN <<>>
    ELSE LET u == Head(uuids) IN
         (IF u.type = BLE_UUID_TYPE_BLE
          THEN <<u.uuid % 256, u.uuid \div 256>> ELSE <<>>)
         \o UuidBytes(Tail(uuids))

\* the caller's manufacturer data buffer
ManufByte(i) == 160 + i
ManufBytes(n) == [i \in 1..n |-> ManufByte(i)]

\* the first n bytes of the local name[] buffer after the stack filled it;
\* what lies behind the bytes the stack stored is not defined by the program
NameBytes(name, n) ==
    [i \in 1..n |-> IF i <= Len(name.bytes) THEN name.bytes[i] ELSE 0]

\* the include_name_in_sr branch of adv_data_build: the complete name in
\* the scan response, or nothing
scan_rsp_name_field(name) ==
    IF name.ret = NRF_SUCCESS /\ name.len > 0
       /\ 0 + 2 + name.len <= BLE_GAP_ADV_SET_DATA_SIZE_MAX
    THEN <<Uint8(name.len + 1), BLE_GAP_AD_TYPE_COMPLETE_LOCAL_NAME>>
         \o NameBytes(name, name.len)
    ELSE <<>>

\* the include_name branch of adv_data_build appended to the payload p
adv_name_field(p, name) ==
    IF name.ret = NRF_SUCCESS /\ name.len > 0
    THEN IF Len(p) + 2 + name.len <= BLE_GAP_ADV_SET_DATA_SIZE_MAX
         THEN p \o <<Uint8(name.len + 1), BLE_GAP_AD_TYPE_COMPLETE_LOCAL_NAME>>
                \o NameBytes(name, name.len)
         ELSE LET available == Uint8(BLE_GAP_ADV_SET_DATA_SIZE_MAX - Len(p) - 2) IN
              IF available > 0
              THEN p \o <<Uint8(available + 1), BLE_GAP_AD_TYPE_SHORT_LOCAL_NAME>>
                     \o NameBytes(name, available)
              ELSE p
    ELSE p

\* F applied to the value of v, with v computed once
Bind(v, F(_)) == CHOOSE r \in {F(x) : x \in {v}} : TRUE

\* the steps of adv_data_build before the device name, each appending its
\* field to the payload p when its own size test passes
adv_flags_field(p) ==
    IF Len(p) + 3 <= BLE_GAP_ADV_SET_DATA_SIZE_MAX
    THEN p \o <<2, BLE_GAP_AD_TYPE_FLAGS, BLE_GAP_ADV_FLAGS_LE_ONLY_GENERAL_DISC_MODE>>
    ELSE p

adv_uuid_field(p, c) ==
    LET uuid_field_len == Uint8(1 + Len(c.uuids) * 2) IN
    IF Len(c.uuids) > 0
       /\ Len(p) + 1 + uuid_field_len <= BLE_GAP_ADV_SET_DATA_SIZE_MAX
    THEN p \o <<uuid_field_len, BLE_GAP_AD_TYPE_16BIT_SERVICE_UUID_COMPLETE>>
           \o UuidBytes(c.uuids)
    ELSE p

adv_tx_power_field(p, c) ==
    IF c.include_tx_power /\ Len(p) + 3 <= BLE_GAP_ADV_SET_DATA_SIZE_MAX
    THEN p \o <<2, BLE_GAP_AD_TYPE_TX_POWER_LEVEL, 0>>
    ELSE p

adv_appearance_field(p, c, appearance) ==
    IF c.include_appearance /\ Len(p) + 4 <= BLE_GAP_ADV_SET_DATA_SIZE_MAX
    THEN p \o <<3, BLE_GAP_AD_TYPE_APPEARANCE, appearance % 256, appearance \div 256>>
    ELSE p

adv_manuf_field(p, c) ==
    LET manuf_field_len == Uint8(2 + c.manuf_data_len) IN
    IF c.p_manuf_data # "NULL" /\ c.manuf_data_len > 0
       /\ Len(p) + 1 + manuf_field_len <= BLE_GAP_ADV_SET_DATA_SIZE_MAX
    THEN p \o <<Uint8(manuf_field_len + 1),
                BLE_GAP_AD_TYPE_MANUFACTURER_SPECIFIC_DATA,
                c.company_id % 256, c.company_id \div 256>>
           \o ManufBytes(c.manuf_data_len)
    ELSE p

\* the fields adv_data_build writes before the device name, in its order:
\* flags, 16-bit UUID list, TX power, appearance, manufacturer data
adv_fields_before_name(c, appearance) ==
    adv_manuf_field(
        adv_appearance_field(
            adv_tx_power_field(adv_uuid_field(adv_flags_field(<<>>), c), c),
            c, appearance),
        c)

\* what adv_data_build leaves when it has stored the bytes p through the
\* pointer into m_adv_data, in order of address: data is the part that lies
\* inside the 31-byte array, len the uint8_t it reports, overrun the number
\* of bytes stored behind the array
AdvBuilt(p, sr) ==
    [data |-> IF Len(p) <= BLE_GAP_ADV_SET_DATA_SIZE_MAX THEN p
              ELSE SubSeq(p, 1, BLE_GAP_ADV_SET_DATA_SIZE_MAX),
     len |-> Uint8(Len(p)),
     overrun |-> IF Len(p) <= BLE_GAP_ADV_SET_DATA_SIZE_MAX THEN 0
                 ELSE Len(p) - BLE_GAP_ADV_SET_DATA_SIZE_MAX,
     sr_data |-> sr,
     ret |-> NRF_SUCCESS]

adv_data_build(c, env) ==
    LET WithName(before) ==
            IF c.include_name THEN adv_name_field(before, env.name) ELSE before
        sr == IF ~c.include_name /\ c.include_name_in_sr
              THEN scan_rsp_name_field(env.name) ELSE <<>>
        Result(p) == AdvBuilt(p, sr)
    IN Bind(Bind(adv_fields_before_name(c, env.appearance), WithName), Result)

\* what a function of the module did: the statics after it, its return
\* value, the SoftDevice calls it made, the notifications it delivered to
\* m_evt_handler, the bytes it stored behind m_adv_data, and whether the
\* processor faulted on such a store instead of returning
AdvOut(a, ret, calls, evts, overrun) ==
    [adv |-> a, ret |-> ret, calls |-> calls, evts |-> evts,
     overrun |-> overrun, fault |-> FALSE]

AdvFault(a, calls, evts, overrun) ==
    [adv |-> a, ret |-> "no return", calls |-> calls, evts |-> evts,
     overrun |-> overrun, fault |-> TRUE]

\* m_evt_handler(evt, mode) when a handler is registered
Notify(a, evt, mode) ==
    IF a.evt_handler THEN <<[evt |-> evt, mode |-> mode]>> ELSE <<>>

SetConfigureCall(interval, duration, len) ==
    [fn |-> "sd_ble_gap_adv_set_configure", interval |-> interval,
     duration |-> duration, len |-> len]

AdvStartCall == [fn |-> "sd_ble_gap_adv_start", interval |-> 0, duration |-> 0,
                 len |-> 0]

AdvStopCall == [fn |-> "sd_ble_gap_adv_stop", interval |-> 0, duration |-> 0,
                len |-> 0]

\* the stack allocates a set when handed BLE_GAP_ADV_SET_HANDLE_NOT_SET
HandleAfter(handle, ret) ==
    IF ret = NRF_SUCCESS /\ handle = BLE_GAP_ADV_SET_HANDLE_NOT_SET THEN 0 ELSE handle

adv_set_configure_keeps_fast_params(a, mode, env) ==
    IF mode \notin {BLE_ADV_MODE_FAST, BLE_ADV_MODE_SLOW}
    THEN AdvOut(a, NRF_ERROR_INVALID_PARAM, <<>>, <<>>, 0)
    ELSE LET Configure(built) ==
                 LET a1 == [a EXCEPT !.adv_data = built.data,
                                     !.adv_len = built.len,
                                     !.scan_rsp_data = built.sr_data] IN
                 IF built.overrun > 0 /\ env.ub = "fault"
                 THEN AdvFault(a1, <<>>, <<>>, built.overrun)
                 ELSE AdvOut([a1 EXCEPT !.handle = HandleAfter(@, env.cfg_ret)],
                             env.cfg_ret,
                             <<SetConfigureCall(a.config.fast_interval,
                                                a.config.fast_timeout, built.len)>>,
                             <<>>, built.overrun)
         IN Bind(adv_data_build(a.config, env), Configure)

adv_set_configure(a, mode, env) ==
    IF mode \notin {BLE_ADV_MODE_FAST, BLE_ADV_MODE_SLOW}
    THEN AdvOut(a, NRF_ERROR_INVALID_PARAM, <<>>, <<>>, 0)
    ELSE LET interval == IF mode = BLE_ADV_MODE_FAST
                         THEN a.config.fast_interval ELSE a.config.slow_interval
             duration == IF mode = BLE_ADV_MODE_FAST
                         THEN a.config.fast_timeout ELSE a.config.slow_timeout
             Configure(built) ==
                 LET a1 == [a EXCEPT !.adv_data = built.data,
                                     !.adv_len = built.len,
                                     !.scan_rsp_data = built.sr_data] IN
                 IF built.overrun > 0 /\ env.ub = "fault"
                 THEN AdvFault(a1, <<>>, <<>>, built.overrun)
                 ELSE IF built.ret # NRF_SUCCESS
                 THEN AdvOut(a1, built.ret, <<>>, <<>>, built.overrun)
                 ELSE AdvOut([a1 EXCEPT !.handle = HandleAfter(@, env.cfg_ret)],
                             env.cfg_ret,
                             <<SetConfigureCall(interval, duration, built.len)>>,
                             <<>>, built.overrun)
         IN Bind(adv_data_build(a.config, env), Configure)

\* p_config is NULL or points to a configuration structure
ble_advertising_init(a, p_config) ==
    AdvOut([a EXCEPT !.config = IF p_config.null
                                THEN BLE_ADVERTISING_CONFIG_DEFAULT
                                ELSE p_config.config,
                     !.handle = BLE_GAP_ADV_SET_HANDLE_NOT_SET,
                     !.mode = BLE_ADV_MODE_IDLE,
                     !.initialized = TRUE],
           NRF_SUCCESS, <<>>, <<>>, 0)

\* p_uuid is NULL or points to a ble_uuid_t
ble_advertising_uuid_add(a, p_uuid) ==
    IF p_uuid.null THEN AdvOut(a, NRF_ERROR_NULL, <<>>, <<>>, 0)
    ELSE IF Len(a.config.uuids) >= BLE_ADV_MAX_UUIDS
    THEN AdvOut(a, NRF_ERROR_NO_MEM, <<>>, <<>>, 0)
    ELSE AdvOut([a EXCEPT !.config.uuids =
                              Append(@, [uuid |-> p_uuid.uuid, type |-> p_uuid.type])],
                NRF_SUCCESS, <<>>, <<>>, 0)

ble_advertising_manuf_data_set(a, company_id, p_data, len) ==
    IF len > BLE_GAP_ADV_SET_DATA_SIZE_MAX - 10
    THEN AdvOut(a, NRF_ERROR_INVALID_LENGTH, <<>>, <<>>, 0)
    ELSE AdvOut([a EXCEPT !.config.company_id = company_id,
                          !.config.p_manuf_data = p_data,
                          !.config.manuf_data_len = len],
                NRF_SUCCESS, <<>>, <<>>, 0)

ble_advertising_evt_handler_set(a, handler) ==
    AdvOut([a EXCEPT !.evt_handler = handler], "void", <<>>, <<>>, 0)

ble_advertising_start_skips_state_check(a, env) ==
    LET start_mode == IF a.config.fast_timeout > 0
                      THEN BLE_ADV_MODE_FAST ELSE BLE_ADV_MODE_SLOW
        Start(cfg) ==
            IF cfg.fault \/ cfg.ret # NRF_SUCCESS THEN cfg
            ELSE IF env.start_ret # NRF_SUCCESS
            THEN AdvOut(cfg.adv, env.start_ret, Append(cfg.calls, AdvStartCall),
                        <<>>, cfg.overrun)
            ELSE LET a2 == [cfg.adv EXCEPT !.mode = start_mode] IN
                 AdvOut(a2, NRF_SUCCESS, Append(cfg.calls, AdvStartCall),
                        Notify(a2, BLE_ADV_EVT_STARTED, start_mode), cfg.overrun)
    IN Bind(adv_set_configure(a, start_mode, env), Start)

ble_advertising_start(a, env) ==
    IF ~a.initialized THEN AdvOut(a, NRF_ERROR_INVALID_STATE, <<>>, <<>>, 0)
    ELSE IF a.mode # BLE_ADV_MODE_IDLE
    THEN AdvOut(a, NRF_ERROR_INVALID_STATE, <<>>, <<>>, 0)
    ELSE LET start_mode == IF a.config.fast_timeout > 0
                           THEN BLE_ADV_MODE_FAST ELSE BLE_ADV_MODE_SLOW
             Start(cfg) ==
                 IF cfg.fault \/ cfg.ret # NRF_SUCCESS THEN cfg
                 ELSE IF env.start_ret # NRF_SUCCESS
                 THEN AdvOut(cfg.adv, env.start_ret,
                             Append(cfg.calls, AdvStartCall), <<>>, cfg.overrun)
                 ELSE LET a2 == [cfg.adv EXCEPT !.mode = start_mode] IN
                      AdvOut(a2, NRF_SUCCESS, Append(cfg.calls, AdvStartCall),
                             Notify(a2, BLE_ADV_EVT_STARTED, start_mode),
                             cfg.overrun)
         IN Bind(adv_set_configure(a, start_mode, env), Start)

ble_advertising_stop(a, env) ==
    IF a.mode = BLE_ADV_MODE_IDLE
    THEN AdvOut(a, NRF_ERROR_INVALID_STATE, <<>>, <<>>, 0)
    ELSE IF env.stop_ret # NRF_SUCCESS /\ env.stop_ret # NRF_ERROR_INVALID_STATE
    THEN AdvOut(a, env.stop_ret, <<AdvStopCall>>, <<>>, 0)
    ELSE LET a1 == [a EXCEPT !.mode = BLE_ADV_MODE_IDLE] IN
         AdvOut(a1, NRF_SUCCESS, <<AdvStopCall>>,
                Notify(a1, BLE_ADV_EVT_STOPPED, BLE_ADV_MODE_IDLE), 0)

\* case BLE_GAP_EVT_CONNECTED
adv_on_connected_restarts(a, env) ==
    LET a1 == [a EXCEPT !.mode = BLE_ADV_MODE_IDLE] IN
    [ble_advertising_start(a1, env) EXCEPT
        !.ret = "void",
        !.evts = Notify(a1, BLE_ADV_EVT_CONNECTED, BLE_ADV_MODE_IDLE) \o @]

adv_on_connected(a, env) ==
    LET a1 == [a EXCEPT !.mode = BLE_ADV_MODE_IDLE] IN
    AdvOut(a1, "void", <<>>,
           Notify(a1, BLE_ADV_EVT_CONNECTED, BLE_ADV_MODE_IDLE), 0)

\* case BLE_GAP_EVT_DISCONNECTED: the result of the restart is dropped
adv_on_disconnected_retries(a, env) ==
    IF a.config.auto_restart /\ a.initialized
    THEN LET Retry(st) ==
                 IF st.fault \/ st.ret = NRF_SUCCESS THEN [st EXCEPT !.ret = "void"]
                 ELSE [ble_advertising_start(st.adv, env) EXCEPT
                          !.ret = "void", !.calls = st.calls \o @]
         IN Bind(ble_advertising_start(a, env), Retry)
    ELSE AdvOut(a, "void", <<>>, <<>>, 0)

adv_on_disconnected(a, env) ==
    IF a.config.auto_restart /\ a.initialized
    THEN LET Drop(st) == IF st.fault THEN st ELSE [st EXCEPT !.ret = "void"]
         IN Bind(ble_advertising_start(a, env), Drop)
    ELSE AdvOut(a, "void", <<>>, <<>>, 0)

\* faulty variant: a slow timeout is notified but the mode stays Slow
adv_on_terminated_stays_slow(a, reason, env) ==
    IF reason # 0 THEN AdvOut(a, "void", <<>>, <<>>, 0)
    ELSE IF a.mode = BLE_ADV_MODE_FAST
    THEN LET evts == Notify(a, BLE_ADV_EVT_FAST_TIMEOUT, a.mode)
             Switch(cfg) ==
                 IF cfg.fault THEN [cfg EXCEPT !.evts = evts]
                 ELSE IF cfg.ret # NRF_SUCCESS
                 THEN AdvOut(cfg.adv, "void", cfg.calls, evts, cfg.overrun)
                 ELSE AdvOut([cfg.adv EXCEPT
                                 !.mode = IF env.start_ret = NRF_SUCCESS
                                          THEN BLE_ADV_MODE_SLOW ELSE @],
                             "void", Append(cfg.calls, AdvStartCall), evts,
                             cfg.overrun)
         IN Bind(adv_set_configure(a, BLE_ADV_MODE_SLOW, env), Switch)
    ELSE IF a.mode = BLE_ADV_MODE_SLOW
    THEN LET a1 == a IN
         AdvOut(a1, "void", <<>>,
                Notify(a1, BLE_ADV_EVT_SLOW_TIMEOUT, BLE_ADV_MODE_IDLE), 0)
    ELSE AdvOut(a, "void", <<>>, <<>>, 0)

\* case BLE_GAP_EVT_ADV_SET_TERMINATED
adv_on_terminated(a, reason, env) ==
    IF reason # 0 THEN AdvOut(a, "void", <<>>, <<>>, 0)
    ELSE IF a.mode = BLE_ADV_MODE_FAST
    THEN LET evts == Notify(a, BLE_ADV_EVT_FAST_TIMEOUT, a.mode)
             Switch(cfg) ==
                 IF cfg.fault THEN [cfg EXCEPT !.evts = evts]
                 ELSE IF cfg.ret # NRF_SUCCESS
                 THEN AdvOut(cfg.adv, "void", cfg.calls, evts, cfg.overrun)
                 ELSE AdvOut([cfg.adv EXCEPT
                                 !.mode = IF env.start_ret = NRF_SUCCESS
                                          THEN BLE_ADV_MODE_SLOW ELSE @],
                             "void", Append(cfg.calls, AdvStartCall), evts,
                             cfg.overrun)
         IN Bind(adv_set_configure(a, BLE_ADV_MODE_SLOW, env), Switch)
    ELSE IF a.mode = BLE_ADV_MODE_SLOW
    THEN LET a1 == [a EXCEPT !.mode = BLE_ADV_MODE_IDLE] IN
         AdvOut(a1, "void", <<>>,
                Notify(a1, BLE_ADV_EVT_SLOW_TIMEOUT, BLE_ADV_MODE_IDLE), 0)
    ELSE AdvOut(a, "void", <<>>, <<>>, 0)

ble_advertising_on_ble_evt(a, e, env) ==
    CASE e.evt_id = "BLE_GAP_EVT_CONNECTED"          -> adv_on_connected(a, env)
      [] e.evt_id = "BLE_GAP_EVT_DISCONNECTED"       -> adv_on_disconnected(a, env)
      [] e.evt_id = "BLE_GAP_EVT_ADV_SET_TERMINATED" -> adv_on_terminated(a, e.reason, env)
      [] OTHER                                       -> AdvOut(a, "void", <<>>, <<>>, 0)

\* ble_advertising_mode_set(mode): the result of the stop call is dropped
ble_advertising_mode_set(a, mode, env) ==
    IF mode = BLE_ADV_MODE_IDLE THEN ble_advertising_stop(a, env)
    ELSE IF mode \notin {BLE_ADV_MODE_FAST, BLE_ADV_MODE_SLOW}
    THEN AdvOut(a, NRF_ERROR_INVALID_PARAM, <<>>, <<>>, 0)
    ELSE LET stop == IF a.mode # BLE_ADV_MODE_IDLE THEN <<AdvStopCall>> ELSE <<>>
             Start(cfg) ==
                 IF cfg.fault THEN [cfg EXCEPT !.calls = stop \o @]
                 ELSE IF cfg.ret # NRF_SUCCESS
                 THEN AdvOut([cfg.adv EXCEPT !.mode = BLE_ADV_MODE_IDLE], cfg.ret,
                             stop \o cfg.calls, <<>>, cfg.overrun)
                 ELSE AdvOut([cfg.adv EXCEPT
                                 !.mode = IF env.start_ret = NRF_SUCCESS
                                          THEN mode ELSE BLE_ADV_MODE_IDLE],
                             env.start_ret,
                             stop \o Append(cfg.calls, AdvStartCall), <<>>,
                             cfg.overrun)
         IN Bind(adv_set_configure(a, mode, env), Start)

\* no call into the advertising module yet; running says that the stack
\* has an advertising set on air, link that a central is connected
NoAdvCall ==
    [op |-> "none", arg |-> <<>>, pre |-> <<>>, env |-> <<>>, ret |-> 0,
     calls |-> <<>>,
     evts |-> <<>>, overrun |-> 0, fault |-> FALSE,
     running |-> FALSE, link |-> FALSE]

\* the set of the stack after the SoftDevice calls of one function: an
\* accepted start puts it on air, an accepted stop takes it off
RECURSIVE RunningAfter(_, _, _)
RunningAfter(running, calls, env) ==
    IF calls = <<>> THEN running
    ELSE RunningAfter(
             CASE Head(calls).fn = "sd_ble_gap_adv_start" ->
                      running \/ env.start_ret = NRF_SUCCESS
               [] Head(calls).fn = "sd_ble_gap_adv_stop" ->
                      running /\ env.stop_ret # NRF_SUCCESS
               [] OTHER -> running,
             Tail(calls), env)

(***************************************************************************)
(* Stack wrapper (ble_stack.c)                                             *)
(***************************************************************************)
BLE_STACK_MAX_SERVICE_HANDLERS == 8
BLE_GATT_ATT_MTU_DEFAULT == 23
BLE_GATT_ATT_MTU_MAX == 247

\* ble_stack_conn_state_t, zero-initialised; the peer address and the
\* connection parameters are carried as one number each
ConnStateZero ==
    [conn_handle |-> 0, connected |-> FALSE, peer_addr |-> 0, conn_params |-> 0,
     rssi |-> 0]

\* the statics of ble_stack.c at reset, with no call made and no event seen.
\* handlers is m_service_handlers up to m_service_handler_count, a function
\* pointer being a number other than 0 (NULL).  op .. dispatched describe
\* the most recent call or event: its argument, the handlers registered
\* before it, the SoftDevice calls it made, the calls of m_conn_handler, and
\* the service handlers it called, in the order of the calls, each with the
\* connection state it found; carried is the handle of the most recent
\* Connected event, open says a Connected event arrived and no Disconnected
\* event after it
StackZero ==
    [initialized |-> FALSE, conn |-> ConnStateZero, conn_handler |-> FALSE,
     handlers |-> <<>>,
     op |-> "none", arg |-> 0, pre_handlers |-> <<>>,
     evt_handle |-> 0, ret |-> 0, calls |-> <<>>,
     notified |-> <<>>, dispatched |-> <<>>,
     carried |-> BLE_CONN_HANDLE_INVALID, open |-> FALSE]

conn_state_init == [ConnStateZero EXCEPT !.conn_handle = BLE_CONN_HANDLE_INVALID]

\* a call or event that only returns
StackReturn(k, op, ret) ==
    [k EXCEPT !.op = op, !.arg = 0, !.pre_handlers = <<>>,
              !.evt_handle = 0, !.ret = ret, !.calls = <<>>,
              !.notified = <<>>, !.dispatched = <<>>]

\* ble_stack_init: enabled is softdevice_is_enabled(), sd_ret the first
\* failing result of the three GAP set calls, or NRF_SUCCESS
ble_stack_init(k, enabled, sd_ret) ==
    IF ~enabled THEN StackReturn(k, "ble_stack_init", NRF_ERROR_INVALID_STATE)
    ELSE LET k1 == [k EXCEPT !.conn = conn_state_init, !.handlers = <<>>] IN
         IF sd_ret # NRF_SUCCESS THEN StackReturn(k1, "ble_stack_init", sd_ret)
         ELSE StackReturn([k1 EXCEPT !.initialized = TRUE], "ble_stack_init",
                          NRF_SUCCESS)

ble_stack_is_connected(k) == k.conn.connected

ble_stack_conn_handle_get(k) == k.conn.conn_handle

ble_stack_conn_handler_set(k, handler) ==
    StackReturn([k EXCEPT !.conn_handler = handler],
                "ble_stack_conn_handler_set", 0)

\* the return of ble_stack_service_handler_register, with its argument and
\* the handlers registered before the call
RegisterReturn(k, k1, handler, ret) ==
    [StackReturn(k1, "ble_stack_service_handler_register", ret)
        EXCEPT !.arg = handler, !.pre_handlers = k.handlers]

\* handler is NULL (0) or a function
ble_stack_service_handler_register(k, handler) ==
    IF handler = 0
    THEN RegisterReturn(k, k, handler, NRF_ERROR_NULL)
    ELSE IF Len(k.handlers) >= BLE_STACK_MAX_SERVICE_HANDLERS
    THEN RegisterReturn(k, k, handler, NRF_ERROR_NO_MEM)
    ELSE RegisterReturn(k, [k EXCEPT !.handlers = Append(@, handler)],
                        handler, NRF_SUCCESS)

\* faulty variant: the handlers are called last registered first
Dispatch_newest_first(handlers, conn) ==
    [i \in 1..Len(handlers) |->
        [handler |-> handlers[Len(handlers) + 1 - i], seen |-> conn]]

\* the loop at the end of ble_stack_evt_handler: m_service_handlers[i] is
\* called for i = 0 .. m_service_handler_count - 1 and finds m_conn_state
\* as the switch before the loop left it
Dispatch(handlers, conn) ==
    [i \in 1..Len(handlers) |-> [handler |-> handlers[i], seen |-> conn]]

\* the events whose connection handle ble_stack_evt_handler extracts
HandleEvts ==
    {"BLE_GAP_EVT_CONNECTED", "BLE_GAP_EVT_DISCONNECTED",
     "BLE_GAP_EVT_CONN_PARAM_UPDATE", "BLE_GAP_EVT_CONN_PARAM_UPDATE_REQUEST",
     "BLE_GAP_EVT_PHY_UPDATE", "BLE_GAP_EVT_DATA_LENGTH_UPDATE",
     "BLE_GATTS_EVT_WRITE", "BLE_GATTS_EVT_RW_AUTHORIZE_REQUEST",
     "BLE_GATTS_EVT_SYS_ATTR_MISSING", "BLE_GATTS_EVT_HVC",
     "BLE_GATTS_EVT_EXCHANGE_MTU_REQUEST", "BLE_GATTS_EVT_HVN_TX_COMPLETE"}

SdCall(fn, conn_handle, arg) == [fn |-> fn, conn_handle |-> conn_handle, arg |-> arg]

\* m_conn_handler(connected, p_state) when a handler is registered
ConnNotify(k, connected, state) ==
    IF k.conn_handler
    THEN <<[connected |-> connected, conn_handle |-> state.conn_handle]>>
    ELSE <<>>

\* on_connected of ble_stack.c, entered with m_conn_state as the caller
\* left it
on_connected_stack(conn, e) ==
    [conn EXCEPT !.conn_handle = 0, !.connected = TRUE,
                 !.peer_addr = e.peer_addr, !.conn_params = e.conn_params,
                 !.rssi = 0]

on_exchange_mtu_request(client_rx_mtu) ==
    IF client_rx_mtu > BLE_GATT_ATT_MTU_DEFAULT
    THEN IF client_rx_mtu > BLE_GATT_ATT_MTU_MAX
         THEN BLE_GATT_ATT_MTU_MAX ELSE client_rx_mtu
    ELSE BLE_GATT_ATT_MTU_DEFAULT

ble_stack_evt_handler(k, e) ==
    LET conn_handle == IF e.evt_id \in HandleEvts
                       THEN e.conn_handle ELSE BLE_CONN_HANDLE_INVALID
        Done(conn, calls, notified) ==
            [k EXCEPT !.conn = conn, !.op = e.evt_id,
                      !.arg = 0, !.pre_handlers = k.handlers,
                      !.evt_handle = e.conn_handle, !.ret = 0,
                      !.calls = calls, !.notified = notified,
                      !.dispatched = Dispatch(k.handlers, conn)]
    IN
    CASE e.evt_id = "BLE_GAP_EVT_CONNECTED" ->
            LET conn == on_connected_stack(
                            [k.conn EXCEPT !.conn_handle = conn_handle], e) IN
            Done(conn, <<>>, ConnNotify(k, TRUE, conn))
      [] e.evt_id = "BLE_GAP_EVT_DISCONNECTED" ->
            Done(conn_state_init, <<>>, ConnNotify(k, FALSE, k.conn))
      [] e.evt_id = "BLE_GAP_EVT_CONN_PARAM_UPDATE" ->
            Done([k.conn EXCEPT !.conn_params = e.conn_params], <<>>, <<>>)
      [] e.evt_id = "BLE_GAP_EVT_CONN_PARAM_UPDATE_REQUEST" ->
            Done(k.conn, <<SdCall("sd_ble_gap_conn_param_update", conn_handle,
                                  e.conn_params)>>, <<>>)
      [] e.evt_id = "BLE_GAP_EVT_PHY_UPDATE_REQUEST" ->
            Done(k.conn, <<SdCall("sd_ble_gap_phy_update", conn_handle, 0)>>, <<>>)
      [] e.evt_id = "BLE_GAP_EVT_SEC_PARAMS_REQUEST" ->
            Done(k.conn, <<SdCall("sd_ble_gap_sec_params_reply", conn_handle, 0)>>,
                 <<>>)
      [] e.evt_id = "BLE_GATTS_EVT_SYS_ATTR_MISSING" ->
            Done(k.conn, <<SdCall("sd_ble_gatts_sys_attr_set", conn_handle, 0)>>,
                 <<>>)
      [] e.evt_id = "BLE_GATTS_EVT_EXCHANGE_MTU_REQUEST" ->
            Done(k.conn, <<SdCall("sd_ble_gatts_exchange_mtu_reply", conn_handle,
                                  on_exchange_mtu_request(e.client_rx_mtu))>>,
                 <<>>)
      [] OTHER -> Done(k.conn, <<>>, <<>>)

(***************************************************************************)
(* Report configuration of the BNO085 driver (bno085.c)                    *)
(***************************************************************************)
SH2_CMD_SET_FEATURE == 253
BNO085_REPORT_ACCELEROMETER == 1
BNO085_REPORT_GYROSCOPE == 2
BNO085_REPORT_MAGNETOMETER == 3
BNO085_REPORT_LINEAR_ACCEL == 4
BNO085_REPORT_ROTATION_VECTOR == 5
BNO085_REPORT_GRAVITY == 6
BNO085_REPORT_GAME_ROTATION == 8
BNO085_REPORT_GEOMAG_ROTATION == 9
BNO085_REPORT_STEP_COUNTER == 17
BNO085_REPORT_STABILITY == 19
BNO085_REPORT_ACTIVITY == 30
BNO085_REPORT_ARVR_STABILIZED == 40

\* width in bits of unsigned long and of uint32_t on the Cortex-M4 target
UlongBits == 32

\* the four bytes (v >> 0) & 0xFF .. (v >> 24) & 0xFF
LE32(v) == <<v % 256, (v \div 256) % 256, (v \div 65536) % 256,
             (v \div 16777216) % 256>>

\* the bits of (1UL << report_type) as they reach the uint32_t field.  A
\* shift by the width of unsigned long or more is not defined: the build
\* either yields 0 (a register shift of the Cortex-M4, or a 64-bit unsigned
\* long truncated by the store) or shifts by the count modulo the width.
ShiftedBit(report_type, ub) ==
    IF report_type < UlongBits THEN {report_type}
    ELSE IF ub = "zero" THEN {}
    ELSE {report_type % UlongBits}

\* faulty variant: the interval is written most significant byte first
SetFeatureCommand_big_endian(report_type, interval_us) ==
    <<SH2_CMD_SET_FEATURE, report_type % 256, 0, 0>>
        \o <<(interval_us \div 16777216) % 256, (interval_us \div 65536) % 256,
             (interval_us \div 256) % 256, interval_us % 256>>
        \o [i \in 1..9 |-> 0]

\* cmd[17] of bno085_enable_report after the memset and the assignments
SetFeatureCommand(report_type, interval_us) ==
    <<SH2_CMD_SET_FEATURE, report_type % 256, 0, 0>> \o LE32(interval_us)
        \o [i \in 1..9 |-> 0]

ReportOut(d, seq, ret, sent, i2c) ==
    [dev |-> d, sequence |-> seq, ret |-> ret, sent |-> sent, i2c |-> i2c]

\* bno085_enable_report(dev, report_type, interval_us); null says that dev
\* is NULL, seq is dev->sequence, w the outcome of the bus transaction
bno085_enable_report(null, d, seq, report_type, interval_us, w, ub) ==
    IF null \/ ~d.initialized THEN
        ReportOut(d, seq, BNO085_ERR_INVALID_PARAM, <<>>, <<>>)
    ELSE
        LET cmd == SetFeatureCommand(report_type, interval_us)
            out == bno085_send_packet(seq, SHTP_CHANNEL_CONTROL,
                                      [bytes |-> cmd], Len(cmd), w, "continues") IN
        ReportOut(IF out.ret = BNO085_OK
                  THEN [d EXCEPT !.enabled_reports = @ \cup ShiftedBit(report_type, ub)]
                  ELSE d,
                  out.sequence, out.ret,
                  <<[channel |-> SHTP_CHANNEL_CONTROL, data |-> cmd, len |-> Len(cmd)]>>,
                  out.i2c)

\* bno085_disable_report(dev, report_type); ub and ub2 are the outcomes of
\* the shift in bno085_enable_report and of the shift of its own
bno085_disable_report(null, d, seq, report_type, w, ub, ub2) ==
    LET r == bno085_enable_report(null, d, seq, report_type, 0, w, ub) IN
    IF r.ret = BNO085_OK
    THEN [r EXCEPT !.dev.enabled_reports = @ \ ShiftedBit(report_type, ub2)]
    ELSE r

(***************************************************************************)
(* Single-report helpers of the BNO085 driver (bno085.c)                   *)
(***************************************************************************)
GetAttempts == 10

GetOps == {"bno085_get_rotation_vector", "bno085_get_accelerometer",
           "bno085_get_gyroscope"}

\* the results of bno085_poll on which the loop of a helper returns
AwaitedReports(op) ==
    CASE op = "bno085_get_rotation_vector" ->
            {SH2_ROTATION_VECTOR, SH2_GAME_ROTATION_VECTOR}
      [] op = "bno085_get_accelerometer" -> {SH2_ACCELEROMETER}
      [] op = "bno085_get_gyroscope" -> {SH2_GYROSCOPE}

\* what the helper copies to the caller on such a result
GetValue(op, report, data) ==
    CASE op = "bno085_get_rotation_vector" ->
            IF report = SH2_GAME_ROTATION_VECTOR THEN data.game_rotation
            ELSE data.rotation_vector
      [] op = "bno085_get_accelerometer" -> data.accelerometer
      [] op = "bno085_get_gyroscope" -> data.gyroscope

\* faulty variant: a helper that runs out of attempts reports success
GetLoopExit_returns_ok(left) ==
    [done |-> left <= 0, ret |-> BNO085_OK]

\* while (attempts-- > 0) after a pass that did not return, left attempts
\* remaining: the loop goes on, or the helper returns BNO085_ERR_TIMEOUT
GetLoopExit(left) ==
    [done |-> left <= 0, ret |-> BNO085_ERR_TIMEOUT]

\* one pass of the loop of a helper: a poll into the local data, and the
\* tests of its result
GetIteration(op, d, data, in, attempts) ==
    LET p == bno085_poll(d, data, in)
        exit == GetLoopExit(attempts - 1) IN
    [dev |-> p.dev, data |-> p.data, result |-> p.ret,
     attempts |-> attempts - 1,
     matched |-> p.ret >= 0 /\ p.ret \in AwaitedReports(op),
     done |-> p.ret < 0 \/ p.ret \in AwaitedReports(op) \/ exit.done,
     ret |-> IF p.ret < 0 THEN p.ret
             ELSE IF p.ret \in AwaitedReports(op) THEN BNO085_OK
             ELSE exit.ret]

\* bno085_get_all_data(dev, data): cache is s_sensor_data, data the
\* structure of the caller; the handle is only tested against NULL
bno085_get_all_data(null_dev, null_data, cache, data) ==
    IF null_dev \/ null_data
    THEN [ret |-> BNO085_ERR_INVALID_PARAM, data |-> data]
    ELSE [ret |-> BNO085_OK, data |-> cache]

(***************************************************************************)
(* Application (main.c) and the event pump of softdevice.c                 *)
(***************************************************************************)
BLE_EVT_BUFFER_SIZE == 256
CONFIG_BLE_GATT_MTU == 247
CONFIG_BNO085_REPORT_RATE_US == 5000

\* offsetof(ble_evt_t, evt.gatts_evt.params.write.data): the header (4
\* bytes), the connection handle (2), then handle (2), uuid (3 and one of
\* padding), op, auth_required, offset (2) and len (2) of the write
WriteDataOffset == 18
BLE_EVT_LEN_MAX(att_mtu) == WriteDataOffset + att_mtu

\* sd_ble_evt_get(p_dest, p_len) on the events pending in the SoftDevice,
\* oldest first; len is the size of the buffer.  An event that does not fit
\* stays pending
sd_ble_evt_get(queue, len) ==
    IF queue = <<>> THEN [ret |-> NRF_ERROR_NOT_FOUND, queue |-> queue]
    ELSE IF Head(queue).evt_len > len
    THEN [ret |-> NRF_ERROR_DATA_SIZE, queue |-> queue]
    ELSE [ret |-> NRF_SUCCESS, queue |-> Tail(queue)]

\* the two tests that leave the loop of softdevice_evt_process
EvtProcessStops(err_code) ==
    err_code = NRF_ERROR_NOT_FOUND \/ err_code # NRF_SUCCESS

\* a float holding n * 2^-14 as the four bytes of its IEEE-754 single
\* format, least significant byte first; every value the driver computes
\* from a 16-bit word with a Q point of 8 or more is of this form
HighBit(m) == CHOOSE p \in 0..30 : 2^p <= m /\ m < 2^(p + 1)
FloatBytes(n) ==
    IF n = 0 THEN <<0, 0, 0, 0>>
    ELSE LET m == IF n < 0 THEN -n ELSE n
             p == HighBit(m)
             exponent == p + 113
             mantissa == (m - 2^p) * 2^(23 - p) IN
         <<mantissa % 256, (mantissa \div 256) % 256,
           (exponent % 2) * 128 + mantissa \div 65536,
           (IF n < 0 THEN 128 ELSE 0) + exponent \div 2>>

\* ble_imu_quat_t and ble_imu_vector_t (packed floats) as memory images
QuatImage(q) ==
    FloatBytes(q.i) \o FloatBytes(q.j) \o FloatBytes(q.k) \o FloatBytes(q.real)
VectorImage(v) == FloatBytes(v.x) \o FloatBytes(v.y) \o FloatBytes(v.z)

\* case SH2_ROTATION_VECTOR / case SH2_GAME_ROTATION_VECTOR of sensor_poll:
\* both labels share the four assignments from s_imu_data.rotation_vector
StagedQuaternion(report, data, old) ==
    IF report \in {SH2_ROTATION_VECTOR, SH2_GAME_ROTATION_VECTOR}
    THEN [i |-> data.rotation_vector.i, j |-> data.rotation_vector.j,
          k |-> data.rotation_vector.k, real |-> data.rotation_vector.real]
    ELSE old

StagedVector(v) == [x |-> v.x, y |-> v.y, z |-> v.z]

\* sensor_poll: a is the statics of main.c, d and data are s_imu and
\* s_imu_data, in is what the bus presents to the poll
sensor_poll(a, d, data, in) ==
    IF ~a.sensor_ok
    THEN [app |-> a, dev |-> d, data |-> data, called |-> FALSE, report |-> 0]
    ELSE LET out == bno085_poll(d, data, in)
             report == out.ret
             a1 == IF report < 0 THEN a
                   ELSE [a EXCEPT
                           !.quaternion = StagedQuaternion(report, out.data, @),
                           !.accel = IF report = SH2_ACCELEROMETER
                                     THEN StagedVector(out.data.accelerometer)
                                     ELSE @,
                           !.gyro = IF report = SH2_GYROSCOPE
                                    THEN StagedVector(out.data.gyroscope)
                                    ELSE @] IN
         [app |-> a1, dev |-> out.dev, data |-> out.data, called |-> TRUE,
          report |-> report]

\* ble_conn_evt_handler(connected, p_state): connected_now is
\* m_conn_state.connected, which ble_stack_phy_update_2m and
\* ble_stack_data_length_update test before they call the SoftDevice
ble_conn_evt_handler(a, connected, connected_now, conn_handle) ==
    [app |-> [a EXCEPT !.ble_connected = connected],
     calls |-> IF connected /\ connected_now
               THEN <<SdCall("sd_ble_gap_phy_update", conn_handle, 2),
                      SdCall("sd_ble_gap_data_length_update", conn_handle, 0)>>
               ELSE <<>>]

\* faulty variant: the rate is handed on in milliseconds
RateInterval_in_ms(rate_ms) == rate_ms

\* uint32_t interval_us = (uint32_t)evt->data.rate_ms * 1000; rate_ms is a
\* uint16_t, so the product stays below 2^32
RateInterval(rate_ms) == rate_ms * 1000

\* ble_imu_evt_handler(evt): d and seq are s_imu and its sequence counters,
\* w the outcome of the bus transaction of a command it sends
ble_imu_evt_handler(a, d, seq, evt, w) ==
    IF evt.type = "BLE_IMU_EVT_RATE_WRITE"
    THEN IF a.sensor_ok /\ evt.rate_ms >= 1
         THEN bno085_enable_report(FALSE, d, seq, BNO085_REPORT_ROTATION_VECTOR,
                                   RateInterval(evt.rate_ms), w, "zero")
         ELSE ReportOut(d, seq, BNO085_OK, <<>>, <<>>)
    ELSE ReportOut(d, seq, BNO085_OK, <<>>, <<>>)

\* ble_notify_imu_data: r is what sd_ble_gatts_hvx answers in this pass.
\* The result is the chain of notify calls made, each with its return code
\* and the transmission it handed to the stack
ble_notify_imu_data(a, s, r) ==
    IF ~a.ble_connected THEN <<>>
    ELSE LET q == ble_imu_notify_quaternion(s, Ptr(QuatImage(a.quaternion)), r)
             x == ble_imu_notify_accelerometer(q.svc, Ptr(VectorImage(a.accel)), r)
             g == ble_imu_notify_gyroscope(x.svc, Ptr(VectorImage(a.gyro)), r) IN
         <<[fn |-> "ble_imu_notify_quaternion", ret |-> q.ret, hvx |-> q.hvx],
           [fn |-> "ble_imu_notify_accelerometer", ret |-> x.ret, hvx |-> x.hvx],
           [fn |-> "ble_imu_notify_gyroscope", ret |-> g.ret, hvx |-> g.hvx]>>

(***************************************************************************)
(* Initial states                                                          *)
(***************************************************************************)
NoCall == [op |-> "none", channel |-> 0, len |-> 0, data |-> [fill |-> 0],
           pre |-> [c \in Channels |-> 0], ret |-> BNO085_OK,
           i2c |-> <<>>, copied |-> 0, overrun |-> FALSE, fault |-> FALSE]

NoPoll == [op |-> "none", polls |-> 0, target |-> "none", in |-> <<>>,
           pre_dev |-> <<>>, pre_data |-> <<>>,
           pre_seq |-> <<>>, ret |-> 0,
           rx_ret |-> 0, reads |-> <<>>, decoded |-> FALSE, errs |-> {}]

NoBoot == [pc |-> "none", elapsed |-> 0, attempts |-> 0, ret |-> 0,
           waits |-> 0, resets |-> 0, pid_reqs |-> 0, first_wait |-> "pending",
           events |-> <<>>, resp |-> <<>>, failed |-> FALSE, retried |-> FALSE]

NoBus == BusInput(HeaderOnly(0, FALSE, 0), [hfault |-> TWIM_OK, pfault |-> TWIM_OK, got |-> 0])

\* the receive side of the driver before bno085_init_config has run
ReceiverIdle ==
    /\ dev = DevZero
    /\ sdata = ZeroData
    /\ udata = ZeroData
    /\ bus = NoBus
    /\ drv = NoPoll
    /\ boot = NoBoot

\* main.c before main() has run: the zero-initialised statics, no radio
\* event pending (queue, oldest first; link is the state of the radio link
\* as the SoftDevice has reported it into the queue), no loop iteration
\* under way.  pending .. sends describe the iteration of app_main_loop
\* under way or just finished: the events pending when it woke, the events
\* softdevice_evt_process dispatched with what their handlers sent to the
\* sensor, the result of sd_ble_evt_get that ended the drain and the events
\* still pending then, what sensor_poll did, and the notify calls made
AppZero ==
    [pc |-> "off", queue |-> <<>>, arrived |-> 0, link |-> FALSE, iterations |-> 0,
     ble_connected |-> FALSE, sensor_ok |-> FALSE,
     quaternion |-> [i |-> 0, j |-> 0, k |-> 0, real |-> 0],
     accel |-> [x |-> 0, y |-> 0, z |-> 0], gyro |-> [x |-> 0, y |-> 0, z |-> 0],
     pending |-> <<>>, handled |-> <<>>, drained |-> FALSE, drain_ret |-> 0,
     left |-> <<>>, polled |-> <<>>, notified |-> FALSE, sends |-> <<>>]

\* the advertising module and the stack wrapper before their init calls
RadioIdle ==
    /\ adv = AdvZero
    /\ advlast = NoAdvCall
    /\ stk = StackZero
    /\ app = AppZero

\* bno085_init_config clears the handle: every sequence counter is 0
DriverFresh ==
    /\ sequence = [c \in Channels |-> 0]
    /\ shtp = NoCall
    /\ payload = [len |-> 0, fill |-> 0]
    /\ ReceiverIdle

\* the handle as a successful bno085_init_config leaves it: the product-ID
\* response is the last packet received
DevReady ==
    [initialized |-> TRUE,
     rx_buffer |-> Packet(SHTP_CHANNEL_CONTROL, 0, FALSE, ProductIdBody),
     rx_len |-> SHTP_HEADER_SIZE + Len(ProductIdBody),
     sw_version_major |-> 1, sw_version_minor |-> 2, sw_version_patch |-> 0,
     sw_part_number |-> 16, sw_build_number |-> 32, enabled_reports |-> {}]

\* one report of every kind, as earlier polls received them
EarlierPattern == [status |-> 1, words |-> <<100, 200, 300, 400, 500, 0>>]
EarlierReports ==
    <<SH2_ROTATION_VECTOR, SH2_GAME_ROTATION_VECTOR, SH2_ACCELEROMETER,
      SH2_GYROSCOPE, SH2_MAGNETOMETER, SH2_LINEAR_ACCELERATION, SH2_GRAVITY,
      SH2_STEP_COUNTER, SH2_STABILITY_CLASSIFIER>>

\* the sample structure after the first n of the earlier reports were polled
\* into it
RECURSIVE DataAfter(_)
DataAfter(n) ==
    IF n = 0 THEN ZeroData
    ELSE LET in == BusInput(Packet(SHTP_CHANNEL_REPORTS, n, FALSE,
                                   ReportBody(EarlierReports[n], 16, EarlierPattern)),
                            [hfault |-> TWIM_OK, pfault |-> TWIM_OK, got |-> 0]) IN
         bno085_poll(DevReady, DataAfter(n - 1), in).data

FilledData == DataAfter(Len(EarlierReports))

ServiceAfterInit(config, evt_handler) ==
    /\ svc = ble_imu_service_init(config, evt_handler)
    /\ last = [op |-> "ble_imu_service_init", arg |-> config, pre |-> svc,
               ret |-> NRF_SUCCESS, events |-> <<>>, hvx |-> <<>>, vset |-> <<>>,
               after_full |-> "none"]

InitImuService ==
    /\ \E config \in Configs, evt_handler \in BOOLEAN :
            ServiceAfterInit(config, evt_handler)
    /\ DriverFresh
    /\ RadioIdle

\* the packet codec is exercised on every payload length, from counters
\* that earlier sends left at 0 or at the last value before the wrap
InitShtp ==
    /\ ServiceAfterInit(NoConfig, TRUE)
    /\ \E s0 \in SeqStarts, s1 \in SeqStarts, hot \in Channels :
            sequence = [c \in Channels |-> IF c = hot THEN s1 ELSE s0]
    /\ shtp = NoCall
    /\ \E len \in SendLens, fill \in SendFills : payload = [len |-> len, fill |-> fill]
    /\ ReceiverIdle
    /\ RadioIdle

\* polling starts on an initialised handle, the caller's structure filled
\* by earlier polls, with any packet and any bus outcome pending
InitPoll ==
    /\ ServiceAfterInit(NoConfig, TRUE)
    /\ sequence = [c \in Channels |-> 0]
    /\ shtp = NoCall
    /\ payload = [len |-> 0, fill |-> 0]
    /\ dev = DevReady
    /\ sdata = FilledData
    /\ udata = FilledData
    /\ bus \in PollInputs
    /\ drv = NoPoll
    /\ boot = NoBoot
    /\ RadioIdle

(***************************************************************************)
(* Actions of the IMU service.  ble_imu_service_on_ble_evt and the notify  *)
(* and configuration functions are public entry points that assume no     *)
(* order of calls, so every call is possible in every state.               *)
(***************************************************************************)
\* the characteristic whose notify call, immediately before this call, was
\* refused by the stack with a full transmit queue ("none" otherwise)
RefusedBefore ==
    IF last.op \in NotifyOps /\ Len(last.hvx) = 1
       /\ last.hvx[1].result = NRF_ERROR_RESOURCES
    THEN last.op ELSE "none"

ImuCall(op, arg, out) ==
    /\ svc' = out.svc
    /\ last' = [op |-> op, arg |-> arg, pre |-> svc, ret |-> out.ret,
                events |-> out.events, hvx |-> out.hvx, vset |-> out.vset,
                after_full |-> RefusedBefore]

ImuEvent(e) == ImuCall(e.evt_id, e, ble_imu_service_on_ble_evt(svc, e))

\* the sensor driver is not touched by the BLE service
DriverIdle == UNCHANGED <<sequence, shtp, payload, dev, sdata, udata, bus, drv, boot,
                          adv, advlast, stk, app>>

Connected ==
    \E h \in ConnHandles :
        /\ ImuEvent([evt_id |-> "BLE_GAP_EVT_CONNECTED", conn_handle |-> h])
        /\ DriverIdle

Disconnected ==
    \E h \in ConnHandles :
        /\ ImuEvent([evt_id |-> "BLE_GAP_EVT_DISCONNECTED", conn_handle |-> h])
        /\ DriverIdle

GattsWrite ==
    \E handle \in WriteHandles, data \in WriteDatas :
        /\ ImuEvent([evt_id |-> "BLE_GATTS_EVT_WRITE",
                     write |-> [handle |-> handle, len |-> Len(data), data |-> data]])
        /\ DriverIdle

HvnTxComplete ==
    /\ ImuEvent([evt_id |-> "BLE_GATTS_EVT_HVN_TX_COMPLETE", count |-> 1])
    /\ DriverIdle

Housekeeping ==
    \E id \in HousekeepingEvts :
        /\ ImuEvent([evt_id |-> id])
        /\ DriverIdle

NotifyQuaternion ==
    \E quat \in QuatSamples, r \in HvxResults :
        /\ ImuCall("ble_imu_notify_quaternion", quat,
                   ble_imu_notify_quaternion(svc, quat, r))
        /\ DriverIdle

NotifyAccelerometer ==
    \E accel \in VectorSamples, r \in HvxResults :
        /\ ImuCall("ble_imu_notify_accelerometer", accel,
                   ble_imu_notify_accelerometer(svc, accel, r))
        /\ DriverIdle

NotifyGyroscope ==
    \E gyro \in VectorSamples, r \in HvxResults :
        /\ ImuCall("ble_imu_notify_gyroscope", gyro,
                   ble_imu_notify_gyroscope(svc, gyro, r))
        /\ DriverIdle

NotifyStatus ==
    \E status \in StatusInputs, r \in HvxResults :
        /\ ImuCall("ble_imu_notify_status", status,
                   ble_imu_notify_status(svc, status, r))
        /\ DriverIdle

UpdateStatus ==
    \E status \in StatusInputs, vr \in ValueSetResults, r \in HvxResults :
        /\ ImuCall("ble_imu_update_status", status,
                   ble_imu_update_status(svc, status, vr, r))
        /\ DriverIdle

SetSampleRate ==
    \E rate_ms \in RateInputs, vr \in ValueSetResults :
        /\ ImuCall("ble_imu_set_sample_rate", rate_ms,
                   ble_imu_set_sample_rate(svc, rate_ms, vr))
        /\ DriverIdle

NextImuService ==
    \/ Connected
    \/ Disconnected
    \/ GattsWrite
    \/ HvnTxComplete
    \/ Housekeeping
    \/ NotifyQuaternion
    \/ NotifyAccelerometer
    \/ NotifyGyroscope
    \/ NotifyStatus
    \/ UpdateStatus
    \/ SetSampleRate

SpecImuService == InitImuService /\ [][NextImuService]_vars

(***************************************************************************)
(* Actions of the SHTP codec                                               *)
(***************************************************************************)
SendPacket ==
    /\ shtp.op = "none"
    /\ \E channel \in Channels, w \in TwimWriteResults, ub \in UbOutcomes :
          LET data == [fill |-> payload.fill]
              len == payload.len
              out == bno085_send_packet(sequence, channel, data, len, w, ub) IN
          /\ sequence' = out.sequence
          /\ shtp' = [op |-> "bno085_send_packet", channel |-> channel,
                      len |-> len, data |-> data, pre |-> sequence,
                      ret |-> out.ret, i2c |-> out.i2c, copied |-> out.copied,
                      overrun |-> out.overrun, fault |-> out.fault]
    /\ UNCHANGED <<svc, last, payload, dev, sdata, udata, bus, drv, boot,
                   adv, advlast, stk, app>>

NextShtp == SendPacket

SpecShtp == InitShtp /\ [][NextShtp]_vars

(***************************************************************************)
(* Actions of the polling path.  main.c polls with its own structure;      *)
(* a caller passing NULL has the decoder write the driver's static cache.  *)
(***************************************************************************)
MaxPolls == 2

\* the bus failures of a call: the cause the transport reported with the
\* code the driver returned for it
ErrsOf(reads, ret) ==
    {<<reads[i].result, ret>> : i \in {n \in 1..Len(reads) : reads[n].result < 0}}

PollWith(in, target) ==
    LET data == IF target = "caller" THEN udata ELSE sdata
        out == bno085_poll(dev, data, in) IN
    /\ dev' = out.dev
    /\ udata' = IF target = "caller" THEN out.data ELSE udata
    /\ sdata' = IF target = "static" THEN out.data ELSE sdata
    /\ drv' = [op |-> "bno085_poll", polls |-> drv.polls + 1, target |-> target,
               in |-> in, pre_dev |-> dev, pre_data |-> data,
               pre_seq |-> sequence, ret |-> out.ret,
               rx_ret |-> out.rx_ret, reads |-> out.reads, decoded |-> out.decoded,
               errs |-> drv.errs \cup ErrsOf(out.reads, out.ret)]
    /\ UNCHANGED <<svc, last, sequence, shtp, payload, bus, boot, adv, advlast, stk, app>>

\* the first poll takes what is pending on the bus
Poll ==
    /\ drv.polls = 0
    /\ \E target \in {"caller", "static"} : PollWith(bus, target)

\* the same caller polls again
PollAgain ==
    /\ drv.polls > 0
    /\ drv.polls < MaxPolls
    /\ \E in \in FollowUps : PollWith(in, drv.target)

NextPoll ==
    \/ Poll
    \/ PollAgain

SpecPoll == InitPoll /\ [][NextPoll]_vars

(***************************************************************************)
(* bno085_init_config, one step per bus transaction.  The call blocks; what *)
(* the sensor presents to each receive is the environment's choice.        *)
(***************************************************************************)
\* the handle before the call: never used, or left by an earlier session
InitBoot ==
    /\ ServiceAfterInit(NoConfig, TRUE)
    /\ \E s0 \in SeqStarts : sequence = [c \in Channels |-> s0]
    /\ shtp = NoCall
    /\ payload = [len |-> 0, fill |-> 0]
    /\ dev \in {DevZero, DevReady}
    /\ sdata = ZeroData
    /\ udata = ZeroData
    /\ bus = NoBus
    /\ drv = NoPoll
    /\ boot = NoBoot
    /\ RadioIdle

BootIdle == UNCHANGED <<svc, last, payload, sdata, udata, bus, drv, adv, advlast, stk, app>>

\* a receive of the current wait: failed when one of its reads failed,
\* retried when it was issued after a failed one of the same wait
AfterReceive(b, reads) ==
    [b EXCEPT !.failed = @ \/ ErrsOf(reads, 0) # {},
              !.retried = @ \/ b.failed]

\* entry of bno085_init_config up to the first wait: memset of the handle,
\* then the presence probe
InitStart ==
    /\ boot.pc = "none"
    /\ \E present \in BOOLEAN :
          /\ dev' = DevZero
          /\ sequence' = [c \in Channels |-> 0]
          /\ boot' = IF present
                     THEN [boot EXCEPT !.pc = "wait1", !.waits = 1]
                     ELSE [boot EXCEPT !.pc = "done", !.ret = BNO085_ERR_NOT_FOUND]
    /\ UNCHANGED shtp
    /\ BootIdle

\* one pass of bno085_wait_for_advertisement(dev, SH2_RESET_COMPLETE, 500),
\* with what init does when the wait returns
WaitStep ==
    /\ boot.pc \in {"wait1", "wait2"}
    /\ \E in \in HandshakeInputs :
          LET it == WaitIteration(dev, SH2_RESET_COMPLETE, in)
              b == AfterReceive(boot, it.reads)
              elapsed == boot.elapsed + WaitStepMs
              result == IF it.matched THEN BNO085_OK ELSE BNO085_ERR_TIMEOUT
              next == InitAfterWait(boot.pc, result) IN
          /\ dev' = it.dev
          /\ boot' =
               IF ~it.matched /\ elapsed < WaitTimeoutMs THEN
                   [b EXCEPT !.elapsed = elapsed]
               ELSE
                   [b EXCEPT !.pc = next,
                             !.elapsed = IF it.matched THEN @ ELSE elapsed,
                             !.events = IF it.matched THEN Append(@, "adv") ELSE @,
                             !.first_wait = IF boot.pc # "wait1" THEN @
                                            ELSE IF it.matched THEN "ok" ELSE "lapsed",
                             !.ret = IF next = "done" THEN result ELSE @,
                             !.failed = IF next = "done" THEN @ ELSE FALSE]
    /\ UNCHANGED <<sequence, shtp>>
    /\ BootIdle

\* bno085_reset(dev), whose result init ignores, then the second wait starts
Reset ==
    /\ boot.pc = "reset"
    /\ \E w \in TwimWriteResults :
          LET out == bno085_send_packet(sequence, SHTP_CHANNEL_EXECUTABLE,
                                        ResetCmd, 1, w, "continues") IN
          /\ sequence' = out.sequence
          /\ shtp' = [op |-> "bno085_reset", channel |-> SHTP_CHANNEL_EXECUTABLE,
                      len |-> 1, data |-> ResetCmd, pre |-> sequence,
                      ret |-> out.ret, i2c |-> out.i2c, copied |-> out.copied,
                      overrun |-> out.overrun, fault |-> out.fault]
          /\ boot' = [boot EXCEPT !.pc = "wait2", !.elapsed = 0,
                                  !.resets = @ + 1, !.waits = @ + 1]
    /\ UNCHANGED dev
    /\ BootIdle

\* the send of bno085_get_product_id
RequestProductId ==
    /\ boot.pc = "product_id"
    /\ \E w \in TwimWriteResults :
          LET out == bno085_send_packet(sequence, SHTP_CHANNEL_CONTROL,
                                        ProductIdRequest, 2, w, "continues") IN
          /\ sequence' = out.sequence
          /\ shtp' = [op |-> "bno085_get_product_id", channel |-> SHTP_CHANNEL_CONTROL,
                      len |-> 2, data |-> ProductIdRequest, pre |-> sequence,
                      ret |-> out.ret, i2c |-> out.i2c, copied |-> out.copied,
                      overrun |-> out.overrun, fault |-> out.fault]
          /\ boot' = IF out.ret # BNO085_OK
                     THEN [boot EXCEPT !.pc = "done", !.ret = out.ret,
                                       !.pid_reqs = @ + 1, !.failed = TRUE]
                     ELSE [boot EXCEPT !.pc = "pid_wait", !.pid_reqs = @ + 1,
                                       !.attempts = ProductIdAttempts]
    /\ UNCHANGED dev
    /\ BootIdle

\* one pass of the loop of bno085_get_product_id, with the tail of init
\* when the response is there
ProductIdStep ==
    /\ boot.pc = "pid_wait"
    /\ \E in \in HandshakeInputs :
          LET it == ProductIdIteration(dev, in)
              b == AfterReceive(boot, it.reads)
              attempts == boot.attempts - 1 IN
          /\ dev' = IF it.matched THEN StoreVersion(it.dev, it.product_id) ELSE it.dev
          /\ boot' =
               IF it.matched THEN
                   [b EXCEPT !.pc = "done", !.ret = BNO085_OK,
                             !.attempts = attempts,
                             !.events = Append(@, "resp"),
                             !.resp = in.bytes]
               ELSE IF attempts > 0 THEN
                   [b EXCEPT !.attempts = attempts]
               ELSE
                   [b EXCEPT !.pc = "done", !.ret = BNO085_ERR_TIMEOUT,
                             !.attempts = attempts]
    /\ UNCHANGED <<sequence, shtp>>
    /\ BootIdle

NextInit ==
    \/ InitStart
    \/ WaitStep
    \/ Reset
    \/ RequestProductId
    \/ ProductIdStep

SpecInit == InitBoot /\ [][NextInit]_vars

(***************************************************************************)
(* Properties of the IMU service                                           *)
(***************************************************************************)
AllNotifyDisabled(s) ==
    /\ ~s.quat_notify_enabled
    /\ ~s.accel_notify_enabled
    /\ ~s.gyro_notify_enabled
    /\ ~s.status_notify_enabled

SameNotifyFlags(s, t) ==
    /\ s.quat_notify_enabled = t.quat_notify_enabled
    /\ s.accel_notify_enabled = t.accel_notify_enabled
    /\ s.gyro_notify_enabled = t.gyro_notify_enabled
    /\ s.status_notify_enabled = t.status_notify_enabled

\* the characteristic a notify operation serves
CharOf(op) ==
    CASE op = "ble_imu_notify_quaternion"    -> "quat"
      [] op = "ble_imu_notify_accelerometer" -> "accel"
      [] op = "ble_imu_notify_gyroscope"     -> "gyro"
      [] op = "ble_imu_notify_status"        -> "status"

FlagOf(s, c) ==
    CASE c = "quat"   -> s.quat_notify_enabled
      [] c = "accel"  -> s.accel_notify_enabled
      [] c = "gyro"   -> s.gyro_notify_enabled
      [] c = "status" -> s.status_notify_enabled

\* the last call was a notify operation handed a sample (not a NULL pointer)
NotifyCalled ==
    /\ last.op \in NotifyOps
    /\ last.op = "ble_imu_notify_status" \/ ~last.arg.null

\* C1: immediately after a Connected event is handled, all four
\* notify-enabled flags are false whatever they were before, and the
\* connection handle is the one the event carried.
C1_ConnectedResets ==
    last.op = "BLE_GAP_EVT_CONNECTED" =>
        /\ AllNotifyDisabled(svc)
        /\ svc.conn_handle = last.arg.conn_handle

C1_Witness ==
    /\ last.op = "BLE_GAP_EVT_CONNECTED"
    /\ last.pre.quat_notify_enabled /\ last.pre.accel_notify_enabled
    /\ last.pre.gyro_notify_enabled /\ last.pre.status_notify_enabled
    /\ last.pre.conn_handle # BLE_CONN_HANDLE_INVALID
    /\ last.pre.conn_handle # last.arg.conn_handle

\* C2: immediately after a Disconnected event is handled, from any prior
\* state, the connection handle is BLE_CONN_HANDLE_INVALID and all four
\* notify-enabled flags are false.
C2_DisconnectedClears ==
    last.op = "BLE_GAP_EVT_DISCONNECTED" =>
        /\ svc.conn_handle = BLE_CONN_HANDLE_INVALID
        /\ AllNotifyDisabled(svc)

C2_Witness ==
    /\ last.op = "BLE_GAP_EVT_DISCONNECTED"
    /\ last.pre.conn_handle # BLE_CONN_HANDLE_INVALID
    /\ last.pre.quat_notify_enabled /\ last.pre.accel_notify_enabled
    /\ last.pre.gyro_notify_enabled /\ last.pre.status_notify_enabled
    /\ svc.conn_handle = BLE_CONN_HANDLE_INVALID

\* C3 as stated: a notify operation called with valid arguments while there
\* is no connection returns success and makes no send-notification call.
C3_NoConnectionSucceeds ==
    (NotifyCalled /\ last.pre.conn_handle = BLE_CONN_HANDLE_INVALID) =>
        /\ last.ret = NRF_SUCCESS
        /\ last.hvx = <<>>

\* C3 as amended: a notify operation called with valid arguments while there
\* is no connection returns NRF_ERROR_INVALID_STATE and makes no
\* send-notification call.
C3_NoConnectionInvalidState ==
    (NotifyCalled /\ last.pre.conn_handle = BLE_CONN_HANDLE_INVALID) =>
        /\ last.ret = NRF_ERROR_INVALID_STATE
        /\ last.hvx = <<>>

C3_Witness ==
    /\ last.op = "ble_imu_notify_quaternion"
    /\ ~last.arg.null
    /\ last.pre.conn_handle = BLE_CONN_HANDLE_INVALID
    /\ last.ret = NRF_ERROR_INVALID_STATE

SampleBytes(op, arg) == IF op = "ble_imu_notify_status" THEN <<arg>> ELSE arg.mem
SampleSize(c) ==
    CASE c = "quat"   -> 16
      [] c = "accel"  -> 12
      [] c = "gyro"   -> 12
      [] c = "status" -> 1

\* C5: with a connection and the characteristic's notifications enabled
\* (a Connected event followed by an enabling CCCD write), one notify call
\* makes exactly one send-notification call, to the current connection
\* handle and the characteristic's value handle, carrying the sample's bytes
\* unchanged with length 16 / 12 / 12 / 1, and returns the stack's result.
C5_EnabledSendsOnce ==
    (/\ NotifyCalled
     /\ last.pre.conn_handle # BLE_CONN_HANDLE_INVALID
     /\ FlagOf(last.pre, CharOf(last.op))) =>
        /\ Len(last.hvx) = 1
        /\ last.hvx[1].conn_handle = last.pre.conn_handle
        /\ last.hvx[1].handle = CharHandles[CharOf(last.op)].value_handle
        /\ last.hvx[1].type = BLE_GATT_HVX_NOTIFICATION
        /\ last.hvx[1].offset = 0
        /\ last.hvx[1].len = SampleSize(CharOf(last.op))
        /\ last.hvx[1].data = SampleBytes(last.op, last.arg)
        /\ Len(last.hvx[1].data) = SampleSize(CharOf(last.op))
        /\ last.ret = last.hvx[1].result

C5_Witness ==
    /\ last.op = "ble_imu_notify_gyroscope"
    /\ Len(last.hvx) = 1
    /\ last.hvx[1].conn_handle = 1
    /\ last.ret = NRF_SUCCESS

\* C6: when the stack refuses the notification with a full transmit queue
\* (NRF_ERROR_RESOURCES) the notify operation returns that error and leaves
\* the connection handle and the four notify flags unchanged; the next
\* notify call for the same characteristic attempts one transmission again.
C6_QueueFullIsRetryable ==
    /\ (/\ last.op \in NotifyOps
        /\ Len(last.hvx) = 1
        /\ last.hvx[1].result = NRF_ERROR_RESOURCES) =>
            /\ last.ret = NRF_ERROR_RESOURCES
            /\ svc.conn_handle = last.pre.conn_handle
            /\ SameNotifyFlags(svc, last.pre)
    /\ (NotifyCalled /\ last.after_full = last.op) => Len(last.hvx) = 1

C6_Witness ==
    /\ last.op = "ble_imu_notify_quaternion"
    /\ ~last.arg.null
    /\ last.after_full = last.op
    /\ Len(last.hvx) = 1
    /\ last.hvx[1].result = NRF_SUCCESS

\* the last call handled a 2-byte host write of the 16-bit value v to handle h
WroteValue(h, v) ==
    /\ last.op = "BLE_GATTS_EVT_WRITE"
    /\ last.arg.write.handle = h
    /\ last.arg.write.len = 2
    /\ last.arg.write.data = LE16(v)

\* the events the application handler received in the last call are exactly
\* the one event evt (none can be received when no handler is registered)
DeliveredOnly(evt) == last.events = IF last.pre.evt_handler THEN <<evt>> ELSE <<>>

\* C7: a 2-byte write to the sample-rate characteristic of a little-endian
\* value outside [1,1000] leaves the stored rate unchanged and emits no
\* rate-write event; a value inside [1,1000] becomes the stored rate and
\* exactly one rate-write event carrying it goes to the registered handler.
C7_RateWrite ==
    \A v \in WriteValues :
        WroteValue(CharHandles.rate.value_handle, v) =>
            IF v >= 1 /\ v <= 1000
            THEN /\ svc.sample_rate_ms = v
                 /\ DeliveredOnly([type |-> "BLE_IMU_EVT_RATE_WRITE",
                                   conn_handle |-> last.pre.conn_handle,
                                   rate_ms |-> v])
            ELSE /\ svc.sample_rate_ms = last.pre.sample_rate_ms
                 /\ last.events = <<>>

C7_Witness ==
    /\ WroteValue(CharHandles.rate.value_handle, 1000)
    /\ last.pre.sample_rate_ms = 1
    /\ svc.sample_rate_ms = 1000
    /\ Len(last.events) = 1

\* C8: in every reachable state after ble_imu_service_init, for any
\* configuration passed to init, the stored sample rate is within 1..1000.
C8_SampleRateInRange == svc.sample_rate_ms >= 1 /\ svc.sample_rate_ms <= 1000

\* the enabled / disabled event of characteristic c
NotifyEvtType(c, enabled) ==
    CASE c = "quat"   -> IF enabled THEN "BLE_IMU_EVT_QUAT_NOTIFY_EN"
                                    ELSE "BLE_IMU_EVT_QUAT_NOTIFY_DIS"
      [] c = "accel"  -> IF enabled THEN "BLE_IMU_EVT_ACCEL_NOTIFY_EN"
                                    ELSE "BLE_IMU_EVT_ACCEL_NOTIFY_DIS"
      [] c = "gyro"   -> IF enabled THEN "BLE_IMU_EVT_GYRO_NOTIFY_EN"
                                    ELSE "BLE_IMU_EVT_GYRO_NOTIFY_DIS"
      [] c = "status" -> IF enabled THEN "BLE_IMU_EVT_STATUS_NOTIFY_EN"
                                    ELSE "BLE_IMU_EVT_STATUS_NOTIFY_DIS"

\* C9: a 2-byte write to the CCCD of the quaternion, accelerometer,
\* gyroscope or status characteristic sets exactly that characteristic's
\* notify-enabled flag to bit 0 of the written value, leaves the other
\* three flags, the connection handle and the sample rate unchanged, and
\* delivers exactly one matching enabled / disabled event to the handler.
C9_CccdWrite ==
    \A c \in {"quat", "accel", "gyro", "status"}, v \in WriteValues :
        WroteValue(CharHandles[c].cccd_handle, v) =>
            /\ FlagOf(svc, c) = (v % 2 = 1)
            /\ \A d \in {"quat", "accel", "gyro", "status"} \ {c} :
                    FlagOf(svc, d) = FlagOf(last.pre, d)
            /\ svc.conn_handle = last.pre.conn_handle
            /\ svc.sample_rate_ms = last.pre.sample_rate_ms
            /\ DeliveredOnly([type |-> NotifyEvtType(c, v % 2 = 1),
                              conn_handle |-> last.pre.conn_handle])

C9_Witness ==
    /\ WroteValue(CharHandles.gyro.cccd_handle, 1001)
    /\ ~last.pre.gyro_notify_enabled
    /\ last.pre.accel_notify_enabled
    /\ svc.gyro_notify_enabled
    /\ Len(last.events) = 1

(***************************************************************************)
(* Properties of the SHTP packet codec                                     *)
(***************************************************************************)
\* C10: for every channel 0..5 and payload length 0..252, bno085_send_packet
\* hands the bus one transfer of length + 4 bytes: the header
\* [len & 0xFF, (len >> 8) & 0x7F, channel, seq] with len = length + 4 and
\* seq the channel's counter before the call, then the payload bytes;
\* parsing the header recovers len and channel; afterwards that counter is
\* (previous + 1) mod 256 and the other five counters are unchanged.
C10_SendPacketFraming ==
    (/\ shtp.op = "bno085_send_packet"
     /\ shtp.channel \in 0..5
     /\ shtp.len \in 0..252) =>
        /\ Len(shtp.i2c) = 1
        /\ LET wr == shtp.i2c[1]
               plen == shtp.len + 4 IN
           /\ wr.len = plen
           /\ Len(wr.bytes) = plen
           /\ Take(wr.bytes, 4) = <<plen % 256, (plen \div 256) % 128,
                                    shtp.channel, shtp.pre[shtp.channel]>>
           /\ \A i \in 1..shtp.len : wr.bytes[4 + i] = ByteAt(shtp.data, i)
           /\ ParseLength(wr.bytes) = plen
           /\ ParseChannel(wr.bytes) = shtp.channel
        /\ sequence[shtp.channel] = (shtp.pre[shtp.channel] + 1) % 256
        /\ \A c \in Channels \ {shtp.channel} : sequence[c] = shtp.pre[c]

C10_Witness ==
    /\ shtp.op = "bno085_send_packet"
    /\ shtp.channel = 5
    /\ shtp.len = 252
    /\ shtp.pre[5] = 255
    /\ sequence[5] = 0
    /\ shtp.ret = BNO085_OK
    /\ Len(shtp.i2c[1].bytes) = 256

\* C11 as stated: for every 16-bit payload length whose total packet length
\* (payload + 4) exceeds the 256-byte transmit buffer, bno085_send_packet
\* returns BNO085_ERR_BUFFER_OVERFLOW, makes no I2C write, copies nothing
\* into the transmit buffer and changes no sequence counter.
C11_OversizeRejected ==
    (/\ shtp.op = "bno085_send_packet"
     /\ shtp.len \in 0..65535
     /\ shtp.len + 4 > 256) =>
        /\ ~shtp.fault
        /\ shtp.ret = BNO085_ERR_BUFFER_OVERFLOW
        /\ shtp.i2c = <<>>
        /\ shtp.copied = 0
        /\ sequence = shtp.pre

(***************************************************************************)
(* Properties of the receive path and the decoder                          *)
(***************************************************************************)
Polled == drv.op = "bno085_poll"

\* the header read of the last poll went through, and the 15-bit length it
\* carried
HeaderRead == Polled /\ drv.in.hfault = TWIM_OK
HeaderLength == ParseLength(Take(drv.in.bytes, SHTP_HEADER_SIZE))

RxUntouched ==
    /\ dev.rx_buffer = drv.pre_dev.rx_buffer
    /\ dev.rx_len = drv.pre_dev.rx_len

\* C12: when the header carries a 15-bit length of 0 or 0x7FFF the receive
\* returns 0 after the header read alone; for a length of 1, 2 or 3 it
\* returns the invalid-data error; in both cases the receive buffer and
\* rx_len are as they were before the call.
C12_EmptyAndShortLengths ==
    HeaderRead =>
        /\ HeaderLength \in {0, 32767} =>
              /\ drv.rx_ret = 0
              /\ Len(drv.reads) = 1
              /\ RxUntouched
        /\ HeaderLength \in {1, 2, 3} =>
              /\ drv.rx_ret = BNO085_ERR_INVALID_DATA
              /\ Len(drv.reads) = 1
              /\ RxUntouched

\* a header of FF FF (length 0x7FFF with the continuation flag) was read on
\* a handle whose buffer holds an earlier packet, and 0 came back
C12_Witness ==
    /\ HeaderRead
    /\ drv.in.bytes[1] = 255 /\ drv.in.bytes[2] = 255
    /\ drv.pre_dev.rx_len = 20
    /\ drv.rx_ret = 0
    /\ Len(drv.reads) = 1

\* the last poll received a whole packet and handed it to the decoder
Decoded == Polled /\ drv.decoded
PacketChannel == drv.in.bytes[3]
PayloadLen == Len(drv.in.bytes) - SHTP_HEADER_SIZE
PacketReportId == drv.in.bytes[SHTP_HEADER_SIZE + 1]

\* the structure the decoder was given, as it is now
TargetData == IF drv.target = "caller" THEN udata ELSE sdata

\* C13: a packet on channel 3 whose payload is shorter than the minimum
\* (5 for any report; 14 for rotation vector, game rotation vector and
\* geomagnetic rotation; 10 for accelerometer, linear acceleration, gravity,
\* gyroscope and magnetometer; 9 for the step counter; 6 for the stability
\* classifier) makes the decoder return the invalid-data error and leaves
\* every field of the output structure as it was.
C13_ShortPayloadRejected ==
    (Decoded /\ PacketChannel = 3) =>
        LET short ==
              \/ PayloadLen < 5
              \/ PacketReportId \in {5, 8, 9} /\ PayloadLen < 14
              \/ PacketReportId \in {1, 4, 6, 2, 3} /\ PayloadLen < 10
              \/ PacketReportId = 17 /\ PayloadLen < 9
              \/ PacketReportId = 19 /\ PayloadLen < 6 IN
        short => /\ drv.ret = BNO085_ERR_INVALID_DATA
                 /\ TargetData = drv.pre_data

\* a rotation vector report of 13 bytes was turned down with the caller's
\* structure holding earlier samples
C13_Witness ==
    /\ Decoded
    /\ PacketChannel = 3
    /\ PayloadLen = 13
    /\ PacketReportId = 5
    /\ drv.pre_data.rotation_vector.i # 0
    /\ drv.ret = BNO085_ERR_INVALID_DATA

\* payload[i] as the decoder saw it in the last poll: a byte of the packet
\* or, behind the end of the packet, what the buffer held before
PayloadByte(i) ==
    IF i < PayloadLen THEN drv.in.bytes[SHTP_HEADER_SIZE + i + 1]
    ELSE RxAt(drv.pre_dev.rx_buffer, SHTP_HEADER_SIZE + i + 1)

\* the k-th 16-bit field from payload offset 5 on, little-endian, signed
RawField(k) ==
    LET lo == PayloadByte(5 + 2 * k)
        hi == PayloadByte(6 + 2 * k) IN
    lo + 256 * hi - (IF hi >= 128 THEN 65536 ELSE 0)

\* value, counted in units of 2^-14, times 2^q equals raw
ScaledBy(value, q, raw) == value * 2^q = raw * 2^14

QuaternionIs(quat, q) ==
    /\ ScaledBy(quat.i, q, RawField(0))
    /\ ScaledBy(quat.j, q, RawField(1))
    /\ ScaledBy(quat.k, q, RawField(2))
    /\ ScaledBy(quat.real, q, RawField(3))
    /\ quat.status = PayloadByte(2) % 4

VectorIs(v, q) ==
    /\ ScaledBy(v.x, q, RawField(0))
    /\ ScaledBy(v.y, q, RawField(1))
    /\ ScaledBy(v.z, q, RawField(2))
    /\ v.accuracy = PayloadByte(2) % 4

\* C14: every decoded value times 2^Q equals the signed 16-bit field read
\* little-endian from payload offset 5 on, with Q = 14 for the quaternion
\* components, 12 for the rotation-vector accuracy, 8 for accelerometer,
\* linear acceleration and gravity, 9 for the gyroscope and 4 for the
\* magnetometer; the status is payload byte 2 masked with 0x03.
C14_FixedPointDecode ==
    (Decoded /\ PacketChannel = 3 /\ drv.ret > 0) =>
        /\ drv.ret \in {5, 9} => QuaternionIs(TargetData.rotation_vector, 14)
        /\ drv.ret = 8 => QuaternionIs(TargetData.game_rotation, 14)
        /\ (drv.ret = 5 /\ PayloadLen >= 16) =>
              ScaledBy(TargetData.rotation_vector.accuracy_rad, 12, RawField(4))
        /\ drv.ret = 1 => VectorIs(TargetData.accelerometer, 8)
        /\ drv.ret = 4 => VectorIs(TargetData.linear_accel, 8)
        /\ drv.ret = 6 => VectorIs(TargetData.gravity, 8)
        /\ drv.ret = 2 => VectorIs(TargetData.gyroscope, 9)
        /\ drv.ret = 3 => VectorIs(TargetData.magnetometer, 4)

\* a rotation vector report with raw i = 8192 and raw real = 8192 and a
\* status byte of 7 was decoded to i = 0.5, real = 0.5 (8192 units of 2^-14)
\* and status 3
C14_Witness ==
    /\ Decoded
    /\ PacketChannel = 3
    /\ drv.ret = 5
    /\ PayloadLen = 16
    /\ RawField(0) = 8192 /\ RawField(3) = 8192
    /\ PayloadByte(2) = 7
    /\ TargetData.rotation_vector.i = 8192
    /\ TargetData.rotation_vector.real = 8192
    /\ TargetData.rotation_vector.status = 3

(***************************************************************************)
(* Properties of the initialisation handshake                              *)
(***************************************************************************)
\* the software reset command as bno085_send_packet hands it to the bus
ResetSent ==
    /\ shtp.op = "bno085_reset"
    /\ shtp.channel = 1
    /\ Len(shtp.i2c) = 1
    /\ shtp.i2c[1].bytes = <<5, 0, 1, shtp.pre[1], 1>>

\* no advertisement was seen in either wait and init has returned
BothWaitsLapsed ==
    /\ boot.pc = "done"
    /\ boot.first_wait = "lapsed"
    /\ boot.events = <<>>

\* C15: when the first wait for the reset-complete advertisement lapses,
\* exactly one reset command is sent, on the executable channel, and exactly
\* one more wait follows; when that lapses too, init returns the timeout
\* error, has sent no product-ID request and the handle is not initialized.
\* When the first wait succeeds no reset command is sent.
C15_OneResetThenOneWait ==
    /\ boot.first_wait = "ok" => boot.resets = 0 /\ boot.waits = 1
    /\ boot.first_wait = "pending" => boot.resets = 0
    /\ boot.first_wait = "lapsed" =>
          IF boot.pc = "reset" THEN boot.resets = 0 /\ boot.waits = 1
          ELSE boot.resets = 1 /\ boot.waits = 2
    /\ (boot.first_wait = "lapsed" /\ boot.pc = "wait2") => ResetSent
    /\ BothWaitsLapsed =>
          /\ boot.ret = BNO085_ERR_TIMEOUT
          /\ boot.pid_reqs = 0
          /\ ~dev.initialized

\* both waits ran their 500 ms without an advertisement and init gave up
C15_Witness ==
    /\ BothWaitsLapsed
    /\ boot.resets = 1
    /\ boot.waits = 2
    /\ boot.elapsed = 500
    /\ boot.ret = BNO085_ERR_TIMEOUT

\* init has run and left the handle initialized
Ready == boot.pc = "done" /\ dev.initialized

\* byte n of the body of the product-ID response that was accepted
ResponseHas(n) == Len(boot.resp) >= SHTP_HEADER_SIZE + n
ResponseByte(n) == boot.resp[SHTP_HEADER_SIZE + n]

\* C16: the handle becomes initialized only after a reset-complete
\* advertisement and then a product-ID response on the control channel with
\* id 0xF8 were received, in that order, and the stored major and minor
\* version then equal the version bytes of that response.
C16_ReadyAfterHandshake ==
    (boot.pc # "none" /\ dev.initialized) =>
        /\ Ready
        /\ boot.events = <<"adv", "resp">>
        /\ boot.resp[3] = 2
        /\ ResponseByte(1) = 248
        /\ ResponseHas(4)
        /\ dev.sw_version_major = ResponseByte(3)
        /\ dev.sw_version_minor = ResponseByte(4)

(***************************************************************************)
(* Properties of the driver under bus failures                             *)
(***************************************************************************)
\* C17: the driver returns, for each failure cause the I2C transport reports
\* (address NACK, data NACK, overrun, timeout), an error code that differs
\* from the code of every other cause.
C17_DistinctCodePerCause ==
    \A a \in drv.errs, b \in drv.errs : a[1] # b[1] => a[2] # b[2]

\* a read of the last poll ended with a bus failure
ReceiveFailed == Polled /\ ErrsOf(drv.reads, drv.ret) # {}

\* C18: a bus failure during a receive, in the header read or in the payload
\* read, leaves the receive buffer and the stored receive length exactly as
\* they were before the call, and leaves the sequence counters alone.
C18_FailureLeavesReceiveBuffer ==
    ReceiveFailed =>
        /\ RxUntouched
        /\ sequence = drv.pre_seq

\* C19: the driver never retries after a bus failure: the first I2C
\* transfer that fails ends the operation in flight (each wait of the init
\* handshake, the product-ID request and its wait) with an error return,
\* and no further transfer is issued within that operation.
C19_NoRetryAfterBusFailure ==
    /\ boot.failed => boot.pc = "done" /\ boot.ret < 0
    /\ ~boot.retried

(***************************************************************************)
(* Properties of the poll                                                  *)
(***************************************************************************)
\* the last poll received a whole packet
PacketReceived == Polled /\ drv.rx_ret > 0

\* the transfers of the last poll are those of one receive: the header read
\* and, behind a header that was read, the payload read of that packet
OneReceive ==
    /\ Len(drv.reads) <= 2
    /\ Len(drv.reads) >= 1 => drv.reads[1].len = SHTP_HEADER_SIZE
    /\ Len(drv.reads) = 2 =>
          /\ drv.reads[1].result = SHTP_HEADER_SIZE
          /\ drv.reads[2].len = HeaderLength - SHTP_HEADER_SIZE

\* report ids the decoder has a case for
RecognisedIds == {1, 2, 3, 4, 5, 6, 8, 9, 17, 19}

NoOp == drv.ret = 0 /\ TargetData = drv.pre_data

\* C20, as stated: a poll makes at most one receive attempt; a received
\* packet on a channel other than 3, and a channel-3 packet with an
\* unrecognised report id, make it return 0 and leave every cached sample
\* and the last-report-id as they were.
C20_UnknownIsNoOp ==
    Polled =>
        /\ OneReceive
        /\ (PacketReceived /\ PacketChannel # 3) => NoOp
        /\ (PacketReceived /\ PacketChannel = 3 /\ PayloadLen >= 1
            /\ PacketReportId \notin RecognisedIds) => NoOp

\* C20, amended: the channel-3 packet with an unrecognised report id is a
\* no-op when its payload has at least 5 bytes (a shorter one is turned down
\* as invalid data before the id is looked at).
C20_UnknownWithFullHeaderIsNoOp ==
    Polled =>
        /\ OneReceive
        /\ (PacketReceived /\ PacketChannel # 3) => NoOp
        /\ (PacketReceived /\ PacketChannel = 3 /\ PayloadLen >= 5
            /\ PacketReportId \notin RecognisedIds) => NoOp

\* a 16-byte report with the id of the uncalibrated gyroscope, for which the
\* decoder has no case, was polled with earlier samples in the structure
C20_Witness ==
    /\ PacketReceived
    /\ PacketChannel = 3
    /\ PayloadLen = 16
    /\ PacketReportId = 7
    /\ Len(drv.reads) = 2
    /\ drv.pre_data.report_id = 19
    /\ NoOp

(***************************************************************************)
(* Inputs of the advertising module                                        *)
(***************************************************************************)
\* "LET-AR IMU", the name main.c hands to ble_stack_init
DeviceName == <<76, 69, 84, 45, 65, 82, 32, 73, 77, 85>>

NamePattern(n) == [i \in 1..n |-> 96 + (i % 26)]

\* sd_ble_gap_device_name_get on a stored name of n bytes that fits name[]
NameAnswer(n) == [ret |-> NRF_SUCCESS, len |-> n, bytes |-> NamePattern(n)]

\* a stored name longer than name[]: the stack refuses with
\* NRF_ERROR_DATA_SIZE, or stores what fits and reports the full length
LongNameAnswers(n) ==
    {[ret |-> NRF_ERROR_DATA_SIZE, len |-> BLE_STACK_DEVICE_NAME_MAX_LEN,
      bytes |-> <<>>],
     [ret |-> NRF_SUCCESS, len |-> n,
      bytes |-> NamePattern(BLE_STACK_DEVICE_NAME_MAX_LEN)]}

NameLens == {0, 1, 10, 17, 32}
NameAnswers == {NameAnswer(n) : n \in NameLens} \cup LongNameAnswers(40)

\* a 16-bit Bluetooth SIG UUID and a UUID of a vendor base (ble_uuid_t)
AdvUuids == {[null |-> FALSE, uuid |-> 6159, type |-> BLE_UUID_TYPE_BLE],
             [null |-> FALSE, uuid |-> 4660, type |-> BLE_UUID_TYPE_VENDOR_BEGIN]}
NullPointer == [null |-> TRUE]
ConfigAt(config) == [null |-> FALSE, config |-> config]

MaxManufLen == 22
ManufLens == 0..MaxManufLen

\* the option switches of a configuration, everything else as the default
OptionConfigs ==
    {[BLE_ADVERTISING_CONFIG_DEFAULT EXCEPT
         !.include_name = n, !.include_name_in_sr = sr,
         !.include_tx_power = tx, !.include_appearance = ap] :
     n \in BOOLEAN, sr \in BOOLEAN, tx \in BOOLEAN, ap \in BOOLEAN}

\* the answers of the SoftDevice during one call into the module
StackAccepts(name, ub) ==
    [name |-> name, appearance |-> BLE_APPEARANCE_GENERIC_TAG,
     cfg_ret |-> NRF_SUCCESS, start_ret |-> NRF_SUCCESS,
     stop_ret |-> NRF_SUCCESS, ub |-> ub]

(***************************************************************************)
(* Actions of the advertising module                                       *)
(***************************************************************************)
AdvCall(op, arg, env, out) ==
    /\ adv' = out.adv
    /\ advlast' = [op |-> op, arg |-> arg, pre |-> adv, env |-> env,
                   ret |-> out.ret, calls |-> out.calls, evts |-> out.evts,
                   overrun |-> out.overrun, fault |-> out.fault,
                   running |-> RunningAfter(
                                   advlast.running
                                   /\ op \notin {"BLE_GAP_EVT_CONNECTED",
                                                 "BLE_GAP_EVT_ADV_SET_TERMINATED"},
                                   out.calls, env),
                   link |-> IF op = "BLE_GAP_EVT_CONNECTED" THEN TRUE
                            ELSE IF op = "BLE_GAP_EVT_DISCONNECTED" THEN FALSE
                            ELSE advlast.link]

\* nothing but the advertising module runs
AdvOnly == UNCHANGED <<svc, last, sequence, shtp, payload, dev, sdata, udata,
                       bus, drv, boot, stk, app>>

\* the module right after ble_advertising_init(config)
AdvAfterInit(config) == ble_advertising_init(AdvZero, ConfigAt(config)).adv

\* payload building: the application has called ble_advertising_init with
\* some choice of the options and goes on to add UUIDs and manufacturer data
InitAdvData ==
    /\ ServiceAfterInit(NoConfig, TRUE)
    /\ DriverFresh
    /\ \E config \in OptionConfigs : adv = AdvAfterInit(config)
    /\ advlast = NoAdvCall
    /\ stk = StackZero
    /\ app = AppZero

Building == ~advlast.fault /\ advlast.op # "ble_advertising_start"

UuidAdd ==
    /\ Building
    /\ \E uuid \in AdvUuids \cup {NullPointer} :
       \E out \in {ble_advertising_uuid_add(adv, uuid)} :
          AdvCall("ble_advertising_uuid_add", uuid, <<>>, out)
    /\ AdvOnly

\* the application hands over its manufacturer data once
ManufDataSet ==
    /\ Building
    /\ adv.config.p_manuf_data = "NULL"
    /\ adv.config.manuf_data_len = 0
    /\ \E p_data \in {"NULL", "manuf"}, len \in ManufLens :
       \E out \in {ble_advertising_manuf_data_set(adv, 89, p_data, len)} :
          AdvCall("ble_advertising_manuf_data_set", len, <<>>, out)
    /\ AdvOnly

\* ble_advertising_start with the stack accepting: adv_set_configure builds
\* the payload from the configuration collected so far
StartBuilt ==
    /\ Building
    /\ \E name \in NameAnswers, ub \in UbOutcomes :
       \E env \in {StackAccepts(name, ub)} :
       \E out \in {ble_advertising_start(adv, env)} :
          AdvCall("ble_advertising_start", <<>>, env, out)
    /\ AdvOnly

NextAdvData ==
    \/ UuidAdd
    \/ ManufDataSet
    \/ StartBuilt

SpecAdvData == InitAdvData /\ [][NextAdvData]_vars

(***************************************************************************)
(* Properties of the advertising payload                                   *)
(***************************************************************************)
\* ble_advertising_start has built the payload
Built == advlast.op = "ble_advertising_start" /\ advlast.pre.mode = BLE_ADV_MODE_IDLE

\* the device name the stack holds has 1 to 32 bytes and was handed over
NameInRange ==
    /\ advlast.env.name.ret = NRF_SUCCESS
    /\ advlast.env.name.len \in 1..BLE_STACK_DEVICE_NAME_MAX_LEN

\* C22: for every configuration collected through the module API (0..4
\* UUIDs, manufacturer data of 0..21 bytes, any choice of the name, TX power
\* and appearance options) and a device name of 1..32 bytes, the payload
\* built has at most 31 bytes and no byte is stored behind the 31-byte
\* advertising buffer.
C22_PayloadWithinBuffer ==
    (Built /\ NameInRange) =>
        /\ ~advlast.fault
        /\ advlast.overrun = 0
        /\ adv.adv_len <= BLE_GAP_ADV_SET_DATA_SIZE_MAX

\* the fields the build wrote before the device name
FieldsBefore == adv_fields_before_name(advlast.pre.config, advlast.env.appearance)

\* the name is to be included, the stack handed it over, and its
\* complete-name field does not fit behind the fields before it
NameDoesNotFit ==
    /\ Built
    /\ advlast.pre.config.include_name
    /\ advlast.env.name.ret = NRF_SUCCESS
    /\ advlast.env.name.len > 0
    /\ Len(FieldsBefore) + 2 + advlast.env.name.len > BLE_GAP_ADV_SET_DATA_SIZE_MAX

\* the shortened-name field that fills the payload up to 31 bytes
ShortNameUpTo31 ==
    LET n == BLE_GAP_ADV_SET_DATA_SIZE_MAX - Len(FieldsBefore) - 2 IN
    <<n + 1, BLE_GAP_AD_TYPE_SHORT_LOCAL_NAME>> \o SubSeq(advlast.env.name.bytes, 1, n)

\* C23: whenever the device name is to be included and its complete-name
\* field does not fit in the remaining budget, a shortened-name field holding
\* a prefix of the name is emitted so that the payload is exactly 31 bytes,
\* and every field added before it is preserved in full.
C23_ShortenedNameFillsPayload ==
    NameDoesNotFit =>
        /\ ~advlast.fault
        /\ advlast.overrun = 0
        /\ adv.adv_len = BLE_GAP_ADV_SET_DATA_SIZE_MAX
        /\ Len(FieldsBefore) + 2 < BLE_GAP_ADV_SET_DATA_SIZE_MAX
        /\ adv.adv_data = FieldsBefore \o ShortNameUpTo31

(***************************************************************************)
(* The advertising mode machine.  The module starts uninitialised; the     *)
(* application initialises it once (main.c hands over the default values,  *)
(* varied here in the fields the mode logic reads), registers its handler  *)
(* or not, and calls start and stop at any time; the stack delivers        *)
(* events to ble_advertising_on_ble_evt once init has registered it.       *)
(***************************************************************************)
ModeConfigs ==
    {[BLE_ADVERTISING_CONFIG_DEFAULT EXCEPT
         !.fast_timeout = ft, !.slow_timeout = st, !.auto_restart = ar] :
     ft \in {0, 3000}, st \in {0, 18000}, ar \in BOOLEAN}

\* the answers of the stack to one call into the module, with the device
\* name main.c configured
StackAnswers ==
    {[name |-> [ret |-> NRF_SUCCESS, len |-> Len(DeviceName), bytes |-> DeviceName],
      appearance |-> BLE_APPEARANCE_GENERIC_TAG,
      cfg_ret |-> c, start_ret |-> s, stop_ret |-> NRF_SUCCESS,
      ub |-> "continues"] :
     c \in {NRF_SUCCESS, NRF_ERROR_NO_MEM},
     s \in {NRF_SUCCESS, NRF_ERROR_INVALID_STATE}}

StopAnswers ==
    {[name |-> [ret |-> NRF_SUCCESS, len |-> Len(DeviceName), bytes |-> DeviceName],
      appearance |-> BLE_APPEARANCE_GENERIC_TAG,
      cfg_ret |-> NRF_SUCCESS, start_ret |-> NRF_SUCCESS, stop_ret |-> r,
      ub |-> "continues"] :
     r \in {NRF_SUCCESS, NRF_ERROR_INVALID_STATE, NRF_ERROR_INVALID_PARAM}}

InitAdvertising ==
    /\ ServiceAfterInit(NoConfig, TRUE)
    /\ DriverFresh
    /\ RadioIdle

AdvInit ==
    /\ ~adv.initialized
    /\ \E p_config \in {NullPointer} \cup {ConfigAt(c) : c \in ModeConfigs} :
       \E out \in {ble_advertising_init(adv, p_config)} :
          AdvCall("ble_advertising_init", p_config, <<>>, out)
    /\ AdvOnly

AdvEvtHandlerSet ==
    /\ \E handler \in BOOLEAN :
       \E out \in {ble_advertising_evt_handler_set(adv, handler)} :
          AdvCall("ble_advertising_evt_handler_set", handler, <<>>, out)
    /\ AdvOnly

AdvStart ==
    /\ \E env \in StackAnswers :
       \E out \in {ble_advertising_start(adv, env)} :
          AdvCall("ble_advertising_start", <<>>, env, out)
    /\ AdvOnly

AdvStop ==
    /\ \E env \in StopAnswers :
       \E out \in {ble_advertising_stop(adv, env)} :
          AdvCall("ble_advertising_stop", <<>>, env, out)
    /\ AdvOnly

AdvEvent(e) ==
    /\ \E env \in StackAnswers :
       \E out \in {ble_advertising_on_ble_evt(adv, e, env)} :
          AdvCall(e.evt_id, e, env, out)
    /\ AdvOnly

AdvConnected ==
    /\ adv.initialized
    /\ AdvEvent([evt_id |-> "BLE_GAP_EVT_CONNECTED", reason |-> 0])

AdvDisconnected ==
    /\ adv.initialized
    /\ AdvEvent([evt_id |-> "BLE_GAP_EVT_DISCONNECTED", reason |-> 0])

\* reason 0x00 is the duration timeout, 0x05 the termination by a
\* connection; 0x01 stands for every other reason
AdvTerminated ==
    /\ adv.initialized
    /\ \E reason \in {0, 1, 5} :
          AdvEvent([evt_id |-> "BLE_GAP_EVT_ADV_SET_TERMINATED", reason |-> reason])

NextAdvertising ==
    \/ AdvInit
    \/ AdvEvtHandlerSet
    \/ AdvStart
    \/ AdvStop
    \/ AdvConnected
    \/ AdvDisconnected
    \/ AdvTerminated

SpecAdvertising == InitAdvertising /\ [][NextAdvertising]_vars

(***************************************************************************)
(* Properties of the advertising mode machine                              *)
(***************************************************************************)
\* the stack accepted the configure and the start call of the last handler
StackAccepted ==
    advlast.env.cfg_ret = NRF_SUCCESS /\ advlast.env.start_ret = NRF_SUCCESS

\* what the application handler received: exactly evt with mode when a
\* handler is registered, nothing when none is
Delivered(evt, mode) ==
    advlast.evts = IF advlast.pre.evt_handler
                   THEN <<[evt |-> evt, mode |-> mode]>> ELSE <<>>

FastTimeout ==
    /\ advlast.op = "BLE_GAP_EVT_ADV_SET_TERMINATED"
    /\ advlast.arg.reason = 0
    /\ advlast.pre.mode = BLE_ADV_MODE_FAST

\* C21: in Fast mode, an advertising-set-terminated event with reason
\* timeout, the stack accepting the reconfigure and the start call, moves the
\* mode to Slow, reconfigures the set with the slow interval and duration,
\* and delivers the fast-timeout notification to the handler exactly once.
C21_FastTimeoutSwitchesToSlow ==
    (FastTimeout /\ StackAccepted) =>
        /\ adv.mode = BLE_ADV_MODE_SLOW
        /\ advlast.calls = <<SetConfigureCall(advlast.pre.config.slow_interval,
                                              advlast.pre.config.slow_timeout,
                                              adv.adv_len),
                             AdvStartCall>>
        /\ Delivered(BLE_ADV_EVT_FAST_TIMEOUT, BLE_ADV_MODE_FAST)

C21_Witness ==
    /\ FastTimeout
    /\ StackAccepted
    /\ advlast.pre.evt_handler
    /\ adv.mode = BLE_ADV_MODE_SLOW
    /\ Len(advlast.evts) = 1
    /\ advlast.calls[1].interval = 1600

\* C24: a Connected event received in any mode (Idle, Fast or Slow) leaves
\* the mode Idle and delivers one connected notification to the handler; no
\* stack call, hence no advertising start, is made while handling it.
C24_ConnectedGoesIdle ==
    advlast.op = "BLE_GAP_EVT_CONNECTED" =>
        /\ adv.mode = BLE_ADV_MODE_IDLE
        /\ Delivered(BLE_ADV_EVT_CONNECTED, BLE_ADV_MODE_IDLE)
        /\ advlast.calls = <<>>

C24_Witness ==
    /\ advlast.op = "BLE_GAP_EVT_CONNECTED"
    /\ advlast.pre.mode = BLE_ADV_MODE_SLOW
    /\ advlast.pre.config.auto_restart
    /\ adv.mode = BLE_ADV_MODE_IDLE
    /\ Len(advlast.evts) = 1

\* the mode ble_advertising_start selects
StartMode ==
    IF advlast.pre.config.fast_timeout > 0 THEN BLE_ADV_MODE_FAST ELSE BLE_ADV_MODE_SLOW

\* the stack calls of one start attempt: the configure call, and the start
\* call exactly when the configure call was accepted
OneStartAttempt ==
    /\ Len(advlast.calls) = IF advlast.env.cfg_ret = NRF_SUCCESS THEN 2 ELSE 1
    /\ advlast.calls[1].fn = "sd_ble_gap_adv_set_configure"
    /\ Len(advlast.calls) = 2 => advlast.calls[2] = AdvStartCall

DisconnectedWhileIdle ==
    /\ advlast.op = "BLE_GAP_EVT_DISCONNECTED"
    /\ advlast.pre.mode = BLE_ADV_MODE_IDLE

\* C25: on a Disconnected event while the mode is Idle, with auto_restart
\* enabled exactly one start attempt is made, after which the mode is the
\* start mode (Fast when fast_timeout > 0) if the attempt succeeded and still
\* Idle, the error dropped and nothing retried, if it failed; with
\* auto_restart disabled the mode stays Idle and no stack call is made.
C25_RestartAfterDisconnect ==
    DisconnectedWhileIdle =>
        /\ advlast.ret = "void"
        /\ advlast.pre.config.auto_restart =>
              /\ OneStartAttempt
              /\ StackAccepted => adv.mode = StartMode
              /\ StackAccepted /\ advlast.pre.config.fast_timeout > 0
                    => adv.mode = BLE_ADV_MODE_FAST
              /\ ~StackAccepted => adv.mode = BLE_ADV_MODE_IDLE
        /\ ~advlast.pre.config.auto_restart =>
              /\ adv.mode = BLE_ADV_MODE_IDLE
              /\ advlast.calls = <<>>

C25_Witness ==
    /\ DisconnectedWhileIdle
    /\ advlast.pre.config.auto_restart
    /\ advlast.env.cfg_ret = NRF_SUCCESS
    /\ advlast.env.start_ret = NRF_ERROR_INVALID_STATE
    /\ Len(advlast.calls) = 2
    /\ adv.mode = BLE_ADV_MODE_IDLE

StartCalled == advlast.op = "ble_advertising_start"

\* C26: ble_advertising_start returns NRF_ERROR_INVALID_STATE, makes no
\* stack call and leaves the mode unchanged when the module is not
\* initialised or the mode is not Idle; otherwise on success the mode is Fast
\* if fast_timeout > 0 and Slow if fast_timeout = 0, with one started
\* notification; if the configure or the start call fails its error is
\* returned and the mode stays Idle.
C26_StartContract ==
    StartCalled =>
        IF ~advlast.pre.initialized \/ advlast.pre.mode # BLE_ADV_MODE_IDLE
        THEN /\ advlast.ret = NRF_ERROR_INVALID_STATE
             /\ advlast.calls = <<>>
             /\ advlast.evts = <<>>
             /\ adv = advlast.pre
        ELSE IF StackAccepted
        THEN /\ advlast.ret = NRF_SUCCESS
             /\ adv.mode = StartMode
             /\ Delivered(BLE_ADV_EVT_STARTED, StartMode)
             /\ OneStartAttempt
        ELSE /\ advlast.ret = IF advlast.env.cfg_ret # NRF_SUCCESS
                              THEN advlast.env.cfg_ret ELSE advlast.env.start_ret
             /\ adv.mode = BLE_ADV_MODE_IDLE
             /\ advlast.evts = <<>>
             /\ OneStartAttempt

C26_Witness ==
    /\ StartCalled
    /\ advlast.pre.initialized
    /\ advlast.pre.mode = BLE_ADV_MODE_FAST
    /\ advlast.ret = NRF_ERROR_INVALID_STATE
    /\ adv.mode = BLE_ADV_MODE_FAST

(***************************************************************************)
(* The stack wrapper: ble_stack_init, the two registration calls, and the  *)
(* events the SoftDevice hands to ble_stack_evt_handler once init has      *)
(* installed it, in any order and for any connection handle                *)
(***************************************************************************)
StackEvt(evt_id, conn_handle, conn_params, client_rx_mtu) ==
    [evt_id |-> evt_id, conn_handle |-> conn_handle, peer_addr |-> 17,
     conn_params |-> conn_params, client_rx_mtu |-> client_rx_mtu]

ConnParams == {24, 60}
ClientMtus == {23, 100, 300}

OtherStackEvts ==
    {StackEvt(id, h, 0, 0) :
        id \in {"BLE_GAP_EVT_PHY_UPDATE_REQUEST", "BLE_GAP_EVT_SEC_PARAMS_REQUEST",
                "BLE_GATTS_EVT_SYS_ATTR_MISSING", "BLE_GATTS_EVT_HVN_TX_COMPLETE"},
        h \in ConnHandles}
    \cup {StackEvt(id, h, cp, 0) :
        id \in {"BLE_GAP_EVT_CONN_PARAM_UPDATE",
                "BLE_GAP_EVT_CONN_PARAM_UPDATE_REQUEST"},
        h \in ConnHandles, cp \in ConnParams}
    \cup {StackEvt("BLE_GATTS_EVT_EXCHANGE_MTU_REQUEST", h, 0, mtu) :
        h \in ConnHandles, mtu \in ClientMtus}

\* pointers handed to ble_stack_service_handler_register: NULL, or one of
\* the two handlers of the firmware (the advertising module's and the IMU
\* service's)
HandlerPointers == {0, 1, 2}

\* service handlers registered in a run of the connection tracking: the
\* advertising module and the IMU service register one each
MaxHandlers == 2

StackOnly == UNCHANGED <<svc, last, sequence, shtp, payload, dev, sdata, udata,
                         bus, drv, boot, adv, advlast, app>>

InitStack ==
    /\ ServiceAfterInit(NoConfig, TRUE)
    /\ DriverFresh
    /\ RadioIdle

StackInit ==
    /\ ~stk.initialized
    /\ \E enabled \in BOOLEAN, sd_ret \in {NRF_SUCCESS, NRF_ERROR_INVALID_PARAM} :
          stk' = ble_stack_init(stk, enabled, sd_ret)
    /\ StackOnly

StackConnHandlerSet ==
    /\ \E handler \in BOOLEAN : stk' = ble_stack_conn_handler_set(stk, handler)
    /\ StackOnly

StackHandlerRegister ==
    /\ stk.initialized
    /\ Len(stk.handlers) < MaxHandlers
    /\ \E handler \in HandlerPointers :
          stk' = ble_stack_service_handler_register(stk, handler)
    /\ StackOnly

StackConnected ==
    /\ stk.initialized
    /\ \E h \in ConnHandles, cp \in ConnParams :
          stk' = [ble_stack_evt_handler(stk, StackEvt("BLE_GAP_EVT_CONNECTED", h, cp, 0))
                     EXCEPT !.carried = h, !.open = TRUE]
    /\ StackOnly

StackDisconnected ==
    /\ stk.initialized
    /\ \E h \in ConnHandles :
          stk' = [ble_stack_evt_handler(stk, StackEvt("BLE_GAP_EVT_DISCONNECTED", h, 0, 0))
                     EXCEPT !.open = FALSE]
    /\ StackOnly

StackOtherEvent ==
    /\ stk.initialized
    /\ \E e \in OtherStackEvts : stk' = ble_stack_evt_handler(stk, e)
    /\ StackOnly

NextStack ==
    \/ StackInit
    \/ StackConnHandlerSet
    \/ StackHandlerRegister
    \/ StackConnected
    \/ StackDisconnected
    \/ StackOtherEvent

SpecStack == InitStack /\ [][NextStack]_vars

\* C27: after any sequence of stack events, ble_stack_conn_handle_get()
\* returns the connection handle carried by the most recent Connected event
\* while connected and BLE_CONN_HANDLE_INVALID when not connected, and
\* ble_stack_is_connected() is true exactly between a Connected event and
\* the next Disconnected event.
C27_ConnHandleTracksConnection ==
    stk.initialized =>
        /\ ble_stack_is_connected(stk) = stk.open
        /\ ble_stack_conn_handle_get(stk) =
              IF stk.open THEN stk.carried ELSE BLE_CONN_HANDLE_INVALID

(***************************************************************************)
(* Inputs and actions of the report configuration.  The application calls   *)
(* bno085_enable_report and bno085_disable_report in any order, on a handle *)
(* that bno085_init_config has completed on or not.                         *)
(***************************************************************************)
\* bno085_report_type_t without BNO085_REPORT_NONE
ReportTypes ==
    {BNO085_REPORT_ACCELEROMETER, BNO085_REPORT_GYROSCOPE,
     BNO085_REPORT_MAGNETOMETER, BNO085_REPORT_LINEAR_ACCEL,
     BNO085_REPORT_ROTATION_VECTOR, BNO085_REPORT_GRAVITY,
     BNO085_REPORT_GAME_ROTATION, BNO085_REPORT_GEOMAG_ROTATION,
     BNO085_REPORT_STEP_COUNTER, BNO085_REPORT_STABILITY,
     BNO085_REPORT_ACTIVITY, BNO085_REPORT_ARVR_STABILIZED}

\* report intervals in microseconds: off, the 100 Hz of main.c, and values
\* whose four bytes differ
ReportIntervals == {0, 10000, 16909060, 2147483647}

ShiftOutcomes == {"zero", "wrap"}
ReportWriteResults == {TWIM_OK, TWIM_ERR_ANACK}

\* the number of commands sent on the control channel in one run
MaxReportCalls == 2

NoReportCall ==
    [op |-> "none", null |-> FALSE, report_type |-> 0, interval_us |-> 0,
     pre_dev |-> DevZero, pre_seq |-> [c \in Channels |-> 0],
     ret |-> BNO085_OK, sent |-> <<>>, i2c |-> <<>>]

InitReports ==
    /\ ServiceAfterInit(NoConfig, TRUE)
    /\ sequence = [c \in Channels |-> 0]
    /\ shtp = NoReportCall
    /\ payload = [len |-> 0, fill |-> 0]
    /\ dev \in {DevZero, DevReady}
    /\ sdata = ZeroData
    /\ udata = ZeroData
    /\ bus = NoBus
    /\ drv = NoPoll
    /\ boot = NoBoot
    /\ RadioIdle

ReportsOnly ==
    UNCHANGED <<svc, last, payload, sdata, udata, bus, drv, boot,
                adv, advlast, stk, app>>

ReportCall(op, null, report_type, interval_us, out) ==
    /\ dev' = out.dev
    /\ sequence' = out.sequence
    /\ shtp' = [op |-> op, null |-> null, report_type |-> report_type,
                interval_us |-> interval_us, pre_dev |-> dev,
                pre_seq |-> sequence, ret |-> out.ret, sent |-> out.sent,
                i2c |-> out.i2c]
    /\ ReportsOnly

EnableReport ==
    /\ sequence[SHTP_CHANNEL_CONTROL] < MaxReportCalls
    /\ \E null \in BOOLEAN, t \in ReportTypes, interval_us \in ReportIntervals,
          w \in ReportWriteResults, ub \in ShiftOutcomes :
          \E out \in {bno085_enable_report(null, dev, sequence, t, interval_us, w, ub)} :
              ReportCall("bno085_enable_report", null, t, interval_us, out)

DisableReport ==
    /\ sequence[SHTP_CHANNEL_CONTROL] < MaxReportCalls
    /\ \E null \in BOOLEAN, t \in ReportTypes, w \in ReportWriteResults,
          ub \in ShiftOutcomes, ub2 \in ShiftOutcomes :
          \E out \in {bno085_disable_report(null, dev, sequence, t, w, ub, ub2)} :
              ReportCall("bno085_disable_report", null, t, 0, out)

NextReports ==
    \/ EnableReport
    \/ DisableReport

SpecReports == InitReports /\ [][NextReports]_vars

ReportOps == {"bno085_enable_report", "bno085_disable_report"}

\* the bitmask holds an entry for report type t, and the entry is set
RecordsEnabled(d, t) == t < UlongBits /\ t \in d.enabled_reports

\* C28: for every report type of the driver, ids of 32 and above included,
\* a successful enable_report(t) leaves t recorded as enabled, a successful
\* disable_report(t) leaves it recorded as not enabled, the entries of the
\* other report types are unchanged, repeating an enable changes nothing,
\* and a failed send leaves the bitmask unchanged.
C28_BitmaskTracksReports ==
    shtp.op \in ReportOps =>
        LET t == shtp.report_type
            before == shtp.pre_dev.enabled_reports
            after == dev.enabled_reports IN
        /\ shtp.ret # BNO085_OK => after = before
        /\ shtp.ret = BNO085_OK =>
              /\ RecordsEnabled(dev, t) <=> shtp.op = "bno085_enable_report"
              /\ \A u \in ReportTypes \ {t} :
                    RecordsEnabled(dev, u) <=> RecordsEnabled(shtp.pre_dev, u)
              /\ (shtp.op = "bno085_enable_report" /\ RecordsEnabled(shtp.pre_dev, t))
                    => after = before

\* C29: enable_report on a handle that has not completed init returns the
\* invalid-parameter error and sends nothing; on a ready handle it sends
\* exactly one packet on the control channel whose 17-byte payload is 0xFD,
\* the report id, two zero bytes, the interval as a little-endian 32-bit
\* value and nine zero bytes; disable_report sends the same with interval 0.
C29_SetFeatureCommand ==
    shtp.op \in ReportOps =>
        IF shtp.null \/ ~shtp.pre_dev.initialized
        THEN /\ shtp.ret = BNO085_ERR_INVALID_PARAM
             /\ shtp.sent = <<>>
             /\ shtp.i2c = <<>>
             /\ sequence = shtp.pre_seq
        ELSE /\ Len(shtp.sent) = 1
             /\ shtp.sent[1].channel = 2
             /\ shtp.sent[1].len = 17
             /\ Len(shtp.sent[1].data) = 17
             /\ \A i \in 1..17 :
                   shtp.sent[1].data[i] =
                      CASE i = 1 -> 253
                        [] i = 2 -> shtp.report_type
                        [] i \in 5..8 ->
                              (shtp.interval_us \div (256 ^ (i - 5))) % 256
                        [] OTHER -> 0
             /\ shtp.op = "bno085_disable_report" => shtp.interval_us = 0
             /\ Len(shtp.i2c) = 1
             /\ shtp.i2c[1].len = 21
             /\ shtp.i2c[1].bytes =
                   <<21, 0, 2, shtp.pre_seq[2]>> \o shtp.sent[1].data

\* a ready handle has sent an enable with an interval whose bytes differ,
\* an uninitialised one has refused a call, and a disable has been sent
C29_Witness ==
    /\ shtp.op = "bno085_enable_report"
    /\ ~shtp.null
    /\ shtp.pre_dev.initialized
    /\ shtp.interval_us = 16909060
    /\ shtp.ret = BNO085_OK
    /\ shtp.pre_seq[2] = 1

(***************************************************************************)
(* The waits of the driver.  The driver runs on one thread: a run is the    *)
(* handshake of bno085_init_config, or calls of the single-report helpers   *)
(* on the handle as an earlier init left it.                                *)
(***************************************************************************)
\* what the sensor presents to a poll of a helper: nothing, a failed header
\* read, a failed payload read, full reports, and a report cut short
GetInputs ==
    {BusInput(HeaderOnly(0, FALSE, 0), [hfault |-> f, pfault |-> TWIM_OK, got |-> 0]) :
        f \in {TWIM_OK, TWIM_ERR_ANACK}}
    \cup {BusInput(Packet(SHTP_CHANNEL_REPORTS, 9, FALSE,
                          ReportBody(id, 16, [status |-> 7,
                                              words |-> <<8192, 0, 0, 8192, 4096, 0>>])),
                   [hfault |-> TWIM_OK, pfault |-> TWIM_OK, got |-> 0]) :
            id \in {SH2_ACCELEROMETER, SH2_GYROSCOPE, SH2_ROTATION_VECTOR,
                    SH2_GAME_ROTATION_VECTOR, SH2_MAGNETOMETER}}
    \cup {BusInput(Packet(SHTP_CHANNEL_REPORTS, 9, FALSE,
                          ReportBody(SH2_ACCELEROMETER, 6, [status |-> 7,
                                              words |-> <<8192, 0, 0, 8192, 4096, 0>>])),
                   [hfault |-> TWIM_OK, pfault |-> TWIM_OK, got |-> 0]),
          BusInput(Packet(SHTP_CHANNEL_REPORTS, 9, FALSE,
                          ReportBody(SH2_GYROSCOPE, 16, [status |-> 7,
                                              words |-> <<8192, 0, 0, 8192, 4096, 0>>])),
                   [hfault |-> TWIM_OK, pfault |-> TWIM_ERR_TIMEOUT, got |-> 2])}

\* contents the uninitialised local bno085_data_t of a helper may hold
StackData == {ZeroData, FilledData}

GetIdle ==
    UNCHANGED <<svc, last, sequence, shtp, payload, sdata, bus, boot,
                adv, advlast, stk, app>>

\* entry of a helper up to its loop; null says that dev or the result
\* pointer is NULL
GetStart ==
    /\ boot = NoBoot
    /\ drv.op = "none"
    /\ \E op \in GetOps, null \in BOOLEAN, data \in StackData :
          /\ udata' = data
          /\ drv' = [op |-> op, pc |-> IF null THEN "done" ELSE "loop",
                     attempts |-> GetAttempts, polls |-> 0,
                     ret |-> IF null THEN BNO085_ERR_INVALID_PARAM ELSE BNO085_OK,
                     result |-> 0, matched |-> FALSE, out |-> <<>>]
    /\ UNCHANGED dev
    /\ GetIdle

\* one pass of the loop of the helper, with its return when the pass ends it
GetPass ==
    /\ drv.op \in GetOps
    /\ drv.pc = "loop"
    /\ \E in \in GetInputs :
          \E it \in {GetIteration(drv.op, dev, udata, in, drv.attempts)} :
              /\ dev' = it.dev
              /\ udata' = it.data
              /\ drv' = [drv EXCEPT !.pc = IF it.done THEN "done" ELSE "loop",
                                    !.attempts = it.attempts,
                                    !.polls = @ + 1,
                                    !.ret = IF it.done THEN it.ret ELSE @,
                                    !.result = it.result,
                                    !.matched = it.matched,
                                    !.out = IF it.matched
                                            THEN GetValue(drv.op, it.result, it.data)
                                            ELSE @]
    /\ GetIdle

\* the handshake, on a handle no helper has been called on
Handshake ==
    /\ drv = NoPoll
    /\ NextInit

NextWaits ==
    \/ Handshake
    \/ GetStart
    \/ GetPass

SpecWaits == InitBoot /\ [][NextWaits]_vars

\* receives issued so far by the wait for the advertisement in progress
WaitReceives == boot.elapsed \div WaitStepMs

\* a wait for the reset-complete advertisement has used its 500 ms
WaitLapsed == boot.elapsed = WaitTimeoutMs

\* the product-ID request was sent and the loop behind it has ended
\* without the response
ProductIdLapsed ==
    /\ boot.pc = "done"
    /\ shtp.op = "bno085_get_product_id"
    /\ shtp.ret = BNO085_OK
    /\ boot.resp = <<>>

\* a helper has ended with its last poll neither failing nor matching
GetLapsed ==
    /\ drv.op \in GetOps
    /\ drv.pc = "done"
    /\ drv.polls > 0
    /\ drv.result >= 0
    /\ ~drv.matched

\* C30: every wait of the driver ends within its budget whatever the
\* sensor sends: at most 50 receives per wait for the reset-complete
\* advertisement, at most 10 per product-ID wait, at most 10 polls in
\* get_rotation_vector / get_accelerometer / get_gyroscope; a wait whose
\* budget is used up without the awaited packet returns the timeout code.
C30_WaitsAreBounded ==
    /\ boot.pc \in {"wait1", "wait2"} => WaitReceives < 50
    /\ WaitReceives <= 50
    /\ WaitLapsed =>
          /\ boot.waits = 1 => boot.first_wait = "lapsed"
          /\ boot.waits = 2 => boot.pc = "done" /\ boot.ret = BNO085_ERR_TIMEOUT
    /\ boot.pc = "pid_wait" => boot.attempts \in 1..10
    /\ boot.attempts \in 0..10
    /\ ProductIdLapsed => boot.attempts = 0 /\ boot.ret = BNO085_ERR_TIMEOUT
    /\ drv.op \in GetOps =>
          /\ drv.polls <= 10
          /\ drv.polls + drv.attempts = 10
          /\ drv.pc = "loop" => drv.polls < 10
          /\ GetLapsed => drv.polls = 10 /\ drv.ret = BNO085_ERR_TIMEOUT

\* the handshake in which the first wait for the advertisement used its 50
\* receives, the second found it, and the product-ID wait used its 10
C30_Witness ==
    /\ boot.first_wait = "lapsed"
    /\ boot.resets = 1
    /\ ProductIdLapsed
    /\ boot.attempts = 0
    /\ boot.ret = BNO085_ERR_TIMEOUT

(***************************************************************************)
(* Further properties of the advertising mode machine                      *)
(***************************************************************************)
Terminated == advlast.op = "BLE_GAP_EVT_ADV_SET_TERMINATED"

\* C31: an advertising-set-terminated event with reason timeout received in
\* Slow mode moves the mode to Idle and delivers the slow-timeout
\* notification exactly once; a terminated event with any other reason, or
\* a timeout received while Idle, changes neither the mode nor delivers any
\* notification.
C31_SlowTimeoutGoesIdle ==
    Terminated =>
        /\ (advlast.arg.reason = 0 /\ advlast.pre.mode = BLE_ADV_MODE_SLOW) =>
              /\ adv.mode = BLE_ADV_MODE_IDLE
              /\ Delivered(BLE_ADV_EVT_SLOW_TIMEOUT, BLE_ADV_MODE_IDLE)
              /\ advlast.calls = <<>>
        /\ (advlast.arg.reason # 0 \/ advlast.pre.mode = BLE_ADV_MODE_IDLE) =>
              /\ adv.mode = advlast.pre.mode
              /\ advlast.evts = <<>>
              /\ advlast.calls = <<>>

\* a slow timeout with a handler registered
C31_Witness ==
    /\ Terminated
    /\ advlast.arg.reason = 0
    /\ advlast.pre.mode = BLE_ADV_MODE_SLOW
    /\ advlast.pre.evt_handler
    /\ adv.mode = BLE_ADV_MODE_IDLE
    /\ Len(advlast.evts) = 1

(***************************************************************************)
(* Registration and dispatch of service handlers: any number of            *)
(* registrations, of either handler or of NULL, between the events.  A     *)
(* registration is refused once the table is full, so the table never     *)
(* holds more than BLE_STACK_MAX_SERVICE_HANDLERS entries.                 *)
(***************************************************************************)
DispatchEvts ==
    {StackEvt("BLE_GAP_EVT_CONN_PARAM_UPDATE", 0, 24, 0),
     StackEvt("BLE_GATTS_EVT_EXCHANGE_MTU_REQUEST", 0, 0, 100),
     StackEvt("BLE_GATTS_EVT_HVN_TX_COMPLETE", 0, 0, 0)}

DispatchRegister ==
    /\ stk.initialized
    /\ \E handler \in HandlerPointers :
          stk' = ble_stack_service_handler_register(stk, handler)
    /\ StackOnly

DispatchEvent ==
    /\ stk.initialized
    /\ \E e \in DispatchEvts : stk' = ble_stack_evt_handler(stk, e)
    /\ StackOnly

NextDispatch ==
    \/ StackInit
    \/ DispatchRegister
    \/ StackConnected
    \/ StackDisconnected
    \/ DispatchEvent

SpecDispatch == InitStack /\ [][NextDispatch]_vars

StackEvtIds ==
    {"BLE_GAP_EVT_CONNECTED", "BLE_GAP_EVT_DISCONNECTED"}
    \cup {e.evt_id : e \in OtherStackEvts}

\* C32: for each event passed to the stack event handler, the module's own
\* connection-state update happens first and then every registered service
\* handler is invoked exactly once, in registration order; registering a
\* handler when 8 are registered returns NRF_ERROR_NO_MEM and registering
\* NULL returns NRF_ERROR_NULL, both leaving the registered handlers
\* unchanged.
C32_DispatchAndRegistration ==
    /\ stk.op \in StackEvtIds =>
          /\ stk.handlers = stk.pre_handlers
          /\ Len(stk.dispatched) = Len(stk.handlers)
          /\ \A i \in 1..Len(stk.handlers) :
                /\ stk.dispatched[i].handler = stk.handlers[i]
                /\ stk.dispatched[i].seen = stk.conn
          /\ stk.op = "BLE_GAP_EVT_CONNECTED" => stk.conn.connected
          /\ stk.op = "BLE_GAP_EVT_DISCONNECTED" => ~stk.conn.connected
    /\ stk.op = "ble_stack_service_handler_register" =>
          /\ stk.arg = 0 => stk.ret = NRF_ERROR_NULL
          /\ (stk.arg # 0 /\ Len(stk.pre_handlers) = 8) => stk.ret = NRF_ERROR_NO_MEM
          /\ stk.ret \in {NRF_ERROR_NULL, NRF_ERROR_NO_MEM} =>
                stk.handlers = stk.pre_handlers
          /\ stk.dispatched = <<>>

\* a refused ninth registration
C32_Witness ==
    /\ stk.op = "ble_stack_service_handler_register"
    /\ stk.arg = 1
    /\ stk.ret = NRF_ERROR_NO_MEM
    /\ Len(stk.handlers) = 8
    /\ stk.handlers[1] = 2

(***************************************************************************)
(* The application loop.  main() has run sensor_init and ble_init; the     *)
(* radio stack queues events at any time (interrupt), app_main_loop wakes, *)
(* drains the queue one sd_ble_evt_get at a time, polls the sensor and     *)
(* notifies.                                                               *)
(***************************************************************************)
MaxArrivals == 2
MaxIterations == 2
RateWrites == {0, 10, 1001}

\* an event as the handlers of the three modules read it; evt_len is the
\* length in its header
MainEvt(evt_id, evt_len, write) ==
    StackEvt(evt_id, 0, 24, 0)
        @@ [evt_len |-> evt_len, write |-> write, count |-> 1, reason |-> 0]

WriteEvt(handle, data) ==
    MainEvt("BLE_GATTS_EVT_WRITE", WriteDataOffset + Len(data),
            [handle |-> handle, len |-> Len(data), data |-> data])

\* Connected and Disconnected (fixed size, shorter than any write event)
LinkEvt(evt_id) ==
    MainEvt(evt_id, WriteDataOffset, [handle |-> 0, len |-> 0, data |-> <<>>])

\* writes a connected peer makes: notifications of the quaternion switched
\* on, a rate, and the longest write the configured MTU admits
PeerWrites ==
    {WriteEvt(CharHandles.quat.cccd_handle, LE16(1))}
    \cup {WriteEvt(CharHandles.rate.value_handle, LE16(r)) : r \in RateWrites}
    \cup {WriteEvt(CharHandles.rate.value_handle,
                   [i \in 1..(CONFIG_BLE_GATT_MTU - 3) |-> 0])}

\* what the sensor presents to a poll of the loop: nothing, a bus failure,
\* or one of the reports
MainReports == {SH2_ROTATION_VECTOR, SH2_GAME_ROTATION_VECTOR,
                SH2_ACCELEROMETER, SH2_GYROSCOPE}
MainBus ==
    {NoBus,
     BusInput(HeaderOnly(0, FALSE, 0),
              [hfault |-> TWIM_ERR_ANACK, pfault |-> TWIM_OK, got |-> 0])}
    \cup {BusInput(Packet(SHTP_CHANNEL_REPORTS, 9, FALSE,
                          ReportBody(id, 16, pat)),
                   [hfault |-> TWIM_OK, pfault |-> TWIM_OK, got |-> 0]) :
            id \in MainReports, pat \in {q \in ReportPatterns : q.status = 7}}

\* s_imu and s_sensor_ok as sensor_init leaves them: bno085_init failed,
\* the first enable call failed on the bus, or all three reports enabled
SensorAfterInit(fail) ==
    LET seq0 == [c \in Channels |->
                    IF c \in {SHTP_CHANNEL_EXECUTABLE, SHTP_CHANNEL_CONTROL}
                    THEN 1 ELSE 0]
        rv == bno085_enable_report(FALSE, DevReady, seq0,
                                   BNO085_REPORT_ROTATION_VECTOR,
                                   CONFIG_BNO085_REPORT_RATE_US,
                                   IF fail = "enable" THEN TWIM_ERR_ANACK
                                   ELSE TWIM_OK, "zero")
        ac == bno085_enable_report(FALSE, rv.dev, rv.sequence,
                                   BNO085_REPORT_ACCELEROMETER,
                                   CONFIG_BNO085_REPORT_RATE_US, TWIM_OK, "zero")
        gy == bno085_enable_report(FALSE, ac.dev, ac.sequence,
                                   BNO085_REPORT_GYROSCOPE,
                                   CONFIG_BNO085_REPORT_RATE_US, TWIM_OK, "zero") IN
    CASE fail = "init"   -> [dev |-> DevZero, sequence |-> seq0, ok |-> FALSE]
      [] fail = "enable" -> [dev |-> rv.dev, sequence |-> rv.sequence, ok |-> FALSE]
      [] OTHER           -> [dev |-> gy.dev, sequence |-> gy.sequence, ok |-> TRUE]

\* the stack wrapper and the advertising module as ble_init leaves them:
\* the IMU service registered its handler (2) before the advertising
\* module registered its own (1)
MainEnv == StackAccepts([ret |-> NRF_SUCCESS, len |-> Len(DeviceName),
                         bytes |-> DeviceName], "continues")
StackAfterInit ==
    ble_stack_service_handler_register(
        ble_stack_service_handler_register(
            ble_stack_conn_handler_set(
                ble_stack_init(StackZero, TRUE, NRF_SUCCESS), TRUE), 2), 1)
AdvAfterBleInit ==
    ble_advertising_start(
        ble_advertising_evt_handler_set(
            ble_advertising_uuid_add(
                AdvAfterInit(BLE_ADVERTISING_CONFIG_DEFAULT),
                [null |-> FALSE, uuid |-> 4660,
                 type |-> BLE_UUID_TYPE_VENDOR_BEGIN]).adv,
            TRUE).adv,
        MainEnv).adv

InitMain ==
    /\ ServiceAfterInit([null |-> FALSE, default_rate_ms |-> 5], TRUE)
    /\ \E fail \in {"init", "enable", "none"} :
       \E sensor \in {SensorAfterInit(fail)} :
          /\ dev = sensor.dev
          /\ sequence = sensor.sequence
          /\ app = [AppZero EXCEPT !.pc = "wait", !.sensor_ok = sensor.ok]
    /\ shtp = NoCall
    /\ payload = [len |-> 0, fill |-> 0]
    /\ sdata = ZeroData
    /\ udata = ZeroData
    /\ bus = NoBus
    /\ drv = NoPoll
    /\ boot = NoBoot
    /\ adv = AdvAfterBleInit
    /\ advlast = [NoAdvCall EXCEPT !.running = TRUE]
    /\ stk = StackAfterInit

\* the radio stack queues an event
Arrive ==
    /\ app.arrived < MaxArrivals
    /\ \E e \in IF app.link
                THEN PeerWrites \cup {LinkEvt("BLE_GAP_EVT_DISCONNECTED")}
                ELSE {LinkEvt("BLE_GAP_EVT_CONNECTED")} :
          app' = [app EXCEPT !.queue = Append(@, e), !.arrived = @ + 1,
                             !.link = e.evt_id # "BLE_GAP_EVT_DISCONNECTED"]
    /\ UNCHANGED <<svc, last, sequence, shtp, payload, dev, sdata, udata, bus,
                   drv, boot, adv, advlast, stk>>

\* softdevice_wait_for_event returns
Wake ==
    /\ app.pc = "wait"
    /\ app.iterations < MaxIterations
    /\ app' = [app EXCEPT !.pc = "drain", !.iterations = @ + 1,
                          !.pending = app.queue,
                          !.handled = <<>>, !.drained = FALSE, !.drain_ret = 0,
                          !.left = <<>>, !.polled = <<>>, !.notified = FALSE,
                          !.sends = <<>>]
    /\ UNCHANGED <<svc, last, sequence, shtp, payload, dev, sdata, udata, bus,
                   drv, boot, adv, advlast, stk>>

\* m_evt_handler(evt), which ble_stack_init set to ble_stack_evt_handler:
\* the connection handler of main.c, then the registered handlers (the
\* wrapper of the IMU service with ble_imu_evt_handler behind it, and the
\* advertising module)
DispatchToHandlers(e, get, k, c, imu, h, advo) ==
    /\ stk' = k
    /\ ImuCall(e.evt_id, e, imu)
    /\ dev' = h.dev
    /\ sequence' = h.sequence
    /\ AdvCall(e.evt_id, e, MainEnv, advo)
    /\ app' = [c.app EXCEPT
                 !.queue = get.queue,
                 !.handled = Append(@, [evt |-> e, conn_calls |-> c.calls,
                                        imu_events |-> imu.events,
                                        pre_seq |-> sequence,
                                        ret |-> h.ret, sent |-> h.sent,
                                        i2c |-> h.i2c])]
    /\ UNCHANGED <<shtp, payload, sdata, udata, bus, drv, boot>>

\* one pass of the loop of softdevice_evt_process
GetEvent ==
    /\ app.pc = "drain"
    /\ \E get \in {sd_ble_evt_get(app.queue, BLE_EVT_BUFFER_SIZE)} :
       IF EvtProcessStops(get.ret)
       THEN /\ app' = [app EXCEPT !.pc = "poll", !.drained = TRUE,
                                  !.drain_ret = get.ret, !.left = get.queue]
            /\ UNCHANGED <<svc, last, sequence, shtp, payload, dev, sdata, udata,
                           bus, drv, boot, adv, advlast, stk>>
       ELSE \E e \in {Head(app.queue)}, w \in ReportWriteResults :
            \E k \in {ble_stack_evt_handler(stk, e)} :
            \E c \in {IF k.notified # <<>>
                      THEN ble_conn_evt_handler(app, k.notified[1].connected,
                                                k.conn.connected, k.conn.conn_handle)
                      ELSE [app |-> app, calls |-> <<>>]} :
            \E imu \in {IF \E i \in 1..Len(k.dispatched) : k.dispatched[i].handler = 2
                        THEN ble_imu_service_on_ble_evt(svc, e)
                        ELSE Outcome(svc, "void", <<>>, <<>>, <<>>)} :
            \E h \in {IF imu.events # <<>>
                      THEN ble_imu_evt_handler(c.app, dev, sequence, imu.events[1], w)
                      ELSE ReportOut(dev, sequence, BNO085_OK, <<>>, <<>>)} :
            \E advo \in {IF \E i \in 1..Len(k.dispatched) : k.dispatched[i].handler = 1
                         THEN ble_advertising_on_ble_evt(adv, e, MainEnv)
                         ELSE AdvOut(adv, "void", <<>>, <<>>, 0)} :
               DispatchToHandlers(e, get, k, c, imu, h, advo)

\* sensor_poll of this iteration
SensorPoll ==
    /\ app.pc = "poll"
    /\ \E in \in MainBus :
       \E out \in {sensor_poll(app, dev, udata, in)} :
          /\ dev' = out.dev
          /\ udata' = out.data
          /\ app' = [out.app EXCEPT
                       !.pc = "notify",
                       !.polled = <<[called |-> out.called, report |-> out.report,
                                     in |-> in, pre_data |-> udata,
                                     pre_quaternion |-> app.quaternion]>>]
    /\ UNCHANGED <<svc, last, sequence, shtp, payload, sdata, bus, drv, boot,
                   adv, advlast, stk>>

\* ble_notify_imu_data and led_update (the LED is not part of the state)
NotifyImuData ==
    /\ app.pc = "notify"
    /\ \E r \in HvxResults :
          app' = [app EXCEPT !.pc = "wait", !.notified = TRUE,
                             !.sends = ble_notify_imu_data(app, svc, r)]
    /\ UNCHANGED <<svc, last, sequence, shtp, payload, dev, sdata, udata, bus,
                   drv, boot, adv, advlast, stk>>

NextMain ==
    \/ Arrive
    \/ Wake
    \/ GetEvent
    \/ SensorPoll
    \/ NotifyImuData

SpecMain == InitMain /\ [][NextMain]_vars

\* the events the drain of this iteration dispatched, in the order of the
\* calls of the handler
DrainedEvts == [i \in 1..Len(app.handled) |-> app.handled[i].evt]

IsRateWrite(e) ==
    /\ e.evt_id = "BLE_GATTS_EVT_WRITE"
    /\ e.write.handle = CharHandles.rate.value_handle
    /\ e.write.len = 2

\* the write is one the service accepts
RateAccepted(e) == RateOf(e.write.data) >= 1 /\ RateOf(e.write.data) <= 1000

\* the one bus transaction of a SET_FEATURE command for the rotation vector
\* with the interval of rate_ms, on the control channel
RateCommandSent(h, rate_ms) ==
    LET cmd == SetFeatureCommand(BNO085_REPORT_ROTATION_VECTOR, rate_ms * 1000) IN
    /\ h.sent = <<[channel |-> SHTP_CHANNEL_CONTROL, data |-> cmd, len |-> Len(cmd)]>>
    /\ Len(h.i2c) = 1
    /\ h.i2c[1].bytes = <<Len(cmd) + SHTP_HEADER_SIZE, 0, SHTP_CHANNEL_CONTROL,
                          h.pre_seq[SHTP_CHANNEL_CONTROL]>> \o cmd

\* C34: while softdevice_evt_process handles an accepted rate write of r ms
\* and s_sensor_ok is set, exactly one SET_FEATURE command for the rotation
\* vector with interval r * 1000 us goes out on the control channel; a
\* rejected rate write, like every other event, sends nothing to the sensor
C34_RateWriteReconfigures ==
    \A n \in 1..Len(app.handled) :
        LET h == app.handled[n] IN
        IF IsRateWrite(h.evt) /\ RateAccepted(h.evt) /\ app.sensor_ok
        THEN RateCommandSent(h, RateOf(h.evt.write.data))
        ELSE h.sent = <<>> /\ h.i2c = <<>>

C34_Witness ==
    /\ app.pc = "drain"
    /\ app.sensor_ok
    /\ app.handled # <<>>
    /\ IsRateWrite(app.handled[Len(app.handled)].evt)
    /\ RateOf(app.handled[Len(app.handled)].evt.write.data) = 10
    /\ Len(app.handled[Len(app.handled)].i2c) = 1
    /\ sequence[SHTP_CHANNEL_CONTROL] = 5

\* the four components sensor_poll stages, taken from a decoded quaternion
Components(q) == [i |-> q.i, j |-> q.j, k |-> q.k, real |-> q.real]

\* the quaternion the decoder stored for the report sensor_poll processed
DecodedQuaternion ==
    IF app.polled[1].report = SH2_GAME_ROTATION_VECTOR
    THEN udata.game_rotation ELSE udata.rotation_vector

\* C38: after sensor_poll has processed a decoded rotation vector or game
\* rotation vector report, s_quaternion holds the i, j, k and real values
\* decoded from that report
C38_StagedQuaternionIsDecoded ==
    (/\ app.polled # <<>>
     /\ app.polled[1].called
     /\ app.polled[1].report \in {SH2_ROTATION_VECTOR, SH2_GAME_ROTATION_VECTOR})
    => app.quaternion = Components(DecodedQuaternion)

(***************************************************************************)
(* The sample cache: polls as in the receive path, each followed or not by *)
(* a bno085_get_all_data into the structure of the caller                  *)
(***************************************************************************)
\* complete reports of every kind, or nothing pending, on a sound bus
CacheInputs ==
    {NoBus}
    \cup {BusInput(Packet(SHTP_CHANNEL_REPORTS, 9, FALSE, ReportBody(id, 16, pat)),
                   [hfault |-> TWIM_OK, pfault |-> TWIM_OK, got |-> 0]) :
            id \in ReportIds, pat \in ReportPatterns}

\* the handle initialised, the cache and the structure of the caller as
\* earlier polls filled them
InitCache ==
    /\ ServiceAfterInit(NoConfig, TRUE)
    /\ sequence = [c \in Channels |-> 0]
    /\ shtp = NoCall
    /\ payload = [len |-> 0, fill |-> 0]
    /\ dev = DevReady
    /\ sdata = FilledData
    /\ udata = FilledData
    /\ bus \in CacheInputs
    /\ drv = NoPoll
    /\ boot = NoBoot
    /\ RadioIdle

GetAllData ==
    /\ drv.op = "bno085_poll"
    /\ \E null_dev \in BOOLEAN, null_data \in BOOLEAN :
       \E out \in {bno085_get_all_data(null_dev, null_data, sdata, udata)} :
          /\ udata' = out.data
          /\ drv' = [drv EXCEPT !.op = "bno085_get_all_data", !.ret = out.ret]
    /\ UNCHANGED <<svc, last, sequence, shtp, payload, dev, sdata, bus, boot,
                   adv, advlast, stk, app>>

NextCache ==
    \/ Poll
    \/ PollAgain
    \/ GetAllData

SpecCache == InitCache /\ [][NextCache]_vars

\* the field of a sample structure a report of this id is decoded into
ReportField(id, data) ==
    CASE id = SH2_GAME_ROTATION_VECTOR -> <<data.game_rotation>>
      [] id \in {SH2_ROTATION_VECTOR, SH2_GEOMAGNETIC_ROTATION} ->
            <<data.rotation_vector>>
      [] id = SH2_ACCELEROMETER -> <<data.accelerometer>>
      [] id = SH2_LINEAR_ACCELERATION -> <<data.linear_accel>>
      [] id = SH2_GRAVITY -> <<data.gravity>>
      [] id = SH2_GYROSCOPE -> <<data.gyroscope>>
      [] id = SH2_MAGNETOMETER -> <<data.magnetometer>>
      [] id = SH2_STEP_COUNTER -> <<data.step_count>>
      [] id = SH2_STABILITY_CLASSIFIER -> <<data.stability>>
      [] OTHER -> <<>>

\* the poll before the bno085_get_all_data just made, run again on what it
\* was given
PollBefore == bno085_poll(drv.pre_dev, drv.pre_data, drv.in)

\* C35: when a poll has decoded a report and returned its id, a following
\* bno085_get_all_data hands out a structure whose field for that report
\* holds the values the poll decoded, whether the poll was given the
\* structure of the caller or NULL
C35_GetAllDataReturnsDecoded ==
    (/\ drv.op = "bno085_get_all_data"
     /\ drv.ret = BNO085_OK
     /\ PollBefore.ret > 0)
    => ReportField(PollBefore.ret, udata) = ReportField(PollBefore.ret, PollBefore.data)

\* the bytes are a sequence of AD structures that tile them: each length
\* byte counts the type byte and the data bytes that follow it
RECURSIVE TilesAsAdStructures(_)
TilesAsAdStructures(bytes) ==
    \/ bytes = <<>>
    \/ /\ bytes[1] >= 1
       /\ bytes[1] + 1 <= Len(bytes)
       /\ TilesAsAdStructures(SubSeq(bytes, bytes[1] + 2, Len(bytes)))

\* a step of the build left the payload p as it was, or appended one
\* structure whose length byte is 1 plus the number of data bytes written
OneStructure(p, q) ==
    \/ q = p
    \/ /\ Len(q) >= Len(p) + 2
       /\ q[Len(p) + 1] = Len(q) - Len(p) - 1

\* the payload after the 16-bit UUID step of the build
UuidStep == adv_uuid_field(adv_flags_field(<<>>), advlast.pre.config)

\* C36: the advertising payload a start call builds within the 31-byte
\* buffer is a well-formed sequence of AD structures, also when the UUID
\* list holds UUIDs of a vendor base: the length byte of the UUID structure
\* is 1 plus the number of data bytes written for it, and the structures
\* tile the payload
C36_PayloadWellFormed ==
    (Built /\ NameInRange /\ ~advlast.fault /\ advlast.overrun = 0) =>
        /\ OneStructure(adv_flags_field(<<>>), UuidStep)
        /\ TilesAsAdStructures(SubSeq(adv.adv_data, 1, adv.adv_len))

(***************************************************************************)
(* The mode machine with the radio behind it: the stack reports a          *)
(* connection or the end of the set only while the set is on air, and a    *)
(* disconnection only while a central is connected; it may reject any      *)
(* configure or start call                                                 *)
(***************************************************************************)
AdvModeSet ==
    /\ adv.initialized
    /\ \E mode \in {BLE_ADV_MODE_IDLE, BLE_ADV_MODE_FAST, BLE_ADV_MODE_SLOW, 3},
          env \in StackAnswers :
       \E out \in {ble_advertising_mode_set(adv, mode, env)} :
          AdvCall("ble_advertising_mode_set", mode, env, out)
    /\ AdvOnly

RadioConnected == advlast.running /\ AdvConnected
RadioDisconnected == advlast.link /\ AdvDisconnected
RadioTerminated == advlast.running /\ AdvTerminated

NextRadio ==
    \/ RadioConnected
    \/ RadioDisconnected
    \/ RadioTerminated
    \/ AdvInit
    \/ AdvEvtHandlerSet
    \/ AdvStart
    \/ AdvStop
    \/ AdvModeSet

SpecRadio == InitAdvertising /\ [][NextRadio]_vars

\* C37: the mode of the advertising module is Fast or Slow only while the
\* stack has an advertising set on air, also when the stack has rejected a
\* configure or a start call
C37_ActiveModeMeansSetRunning ==
    adv.mode \in {BLE_ADV_MODE_FAST, BLE_ADV_MODE_SLOW} => advlast.running

(***************************************************************************)
(* Sequence numbers over several packets: the driver sends one packet      *)
(* after the other on a handle bno085_init_config has just cleared, and    *)
(* the bus accepts or rejects each transfer.  sent keeps, per channel, the *)
(* sequence bytes of the packets the bus accepted, in the order sent.      *)
(***************************************************************************)
MaxSends == 4
\* the channels the driver sends on
SequenceChannels == {SHTP_CHANNEL_EXECUTABLE, SHTP_CHANNEL_CONTROL}
\* an empty payload, and one too long for the transmit buffer
SequenceLens == {0, 253}
SequenceBus == {TWIM_OK, TWIM_ERR_ANACK}

InitSequence ==
    /\ ServiceAfterInit(NoConfig, TRUE)
    /\ sequence = [c \in Channels |-> 0]
    /\ shtp = NoCall @@ [calls |-> 0, sent |-> [c \in Channels |-> <<>>]]
    /\ payload = [len |-> 0, fill |-> 0]
    /\ ReceiverIdle
    /\ RadioIdle

SendNext ==
    /\ shtp.calls < MaxSends
    /\ \E channel \in SequenceChannels, len \in SequenceLens, w \in SequenceBus :
       \E out \in {bno085_send_packet(sequence, channel, [fill |-> payload.fill],
                                      len, w, "continues")} :
          /\ sequence' = out.sequence
          /\ shtp' = [op |-> "bno085_send_packet", channel |-> channel,
                      len |-> len, data |-> [fill |-> payload.fill],
                      pre |-> sequence, ret |-> out.ret, i2c |-> out.i2c,
                      copied |-> out.copied, overrun |-> out.overrun,
                      fault |-> out.fault, calls |-> shtp.calls + 1,
                      sent |-> IF out.ret = BNO085_OK
                               THEN [shtp.sent EXCEPT
                                        ![channel] = Append(@, out.i2c[1].bytes[4])]
                               ELSE shtp.sent]
    /\ UNCHANGED <<svc, last, payload, dev, sdata, udata, bus, drv, boot,
                   adv, advlast, stk, app>>

NextSequence == SendNext

SpecSequence == InitSequence /\ [][NextSequence]_vars

\* C39: on each channel the sequence numbers of the packets the bus accepted
\* are 0, 1, 2, ... modulo 256 in the order sent, with no number left out,
\* also when other send attempts on that channel failed on the bus
C39_TransmittedSequenceHasNoGaps ==
    \A c \in Channels :
        \A i \in 1..Len(shtp.sent[c]) : shtp.sent[c][i] = (i - 1) % 256

(***************************************************************************)
(* The IMU service during connections: the stack delivers Connected and    *)
(* Disconnected events in any order, and a characteristic write only       *)
(* while a central is connected.  app.link is the link as the stack has    *)
(* it: up from a Connected event to the next Disconnected event.           *)
(***************************************************************************)
SessionIdle == UNCHANGED <<sequence, shtp, payload, dev, sdata, udata, bus, drv,
                           boot, adv, advlast, stk>>

SessionConnected ==
    /\ \E h \in ConnHandles :
          ImuEvent([evt_id |-> "BLE_GAP_EVT_CONNECTED", conn_handle |-> h])
    /\ app' = [app EXCEPT !.link = TRUE]
    /\ SessionIdle

SessionDisconnected ==
    /\ \E h \in ConnHandles :
          ImuEvent([evt_id |-> "BLE_GAP_EVT_DISCONNECTED", conn_handle |-> h])
    /\ app' = [app EXCEPT !.link = FALSE]
    /\ SessionIdle

SessionWrite ==
    /\ app.link
    /\ GattsWrite

NextSession ==
    \/ SessionConnected
    \/ SessionDisconnected
    \/ SessionWrite

SpecSession == InitImuService /\ [][NextSession]_vars

NotifyFlags(s) ==
    {s.quat_notify_enabled, s.accel_notify_enabled, s.gyro_notify_enabled,
     s.status_notify_enabled}

\* C40: after init, with writes delivered only between a Connected and the
\* next Disconnected event, whenever the connection handle of the service is
\* BLE_CONN_HANDLE_INVALID all four notify-enabled flags are false
C40_InvalidHandleMeansNoNotify ==
    svc.conn_handle = BLE_CONN_HANDLE_INVALID => NotifyFlags(svc) = {FALSE}

\* a disconnection that found all four notifications enabled
C40_Witness ==
    /\ last.op = "BLE_GAP_EVT_DISCONNECTED"
    /\ NotifyFlags(last.pre) = {TRUE}
    /\ last.pre.conn_handle # BLE_CONN_HANDLE_INVALID
    /\ svc.conn_handle = BLE_CONN_HANDLE_INVALID
    /\ NotifyFlags(svc) = {FALSE}

====
